---- MODULE Spec2Model ----
(***************************************************************************)
(* Model of the forecasting batch of the climate-migration dashboard       *)
(* (preprocessing/analysis/indicator_forecasting.py).                      *)
(*                                                                         *)
(* Frames are sequences of rows, a row is a function from column names to  *)
(* values.  A numeric cell is a pair <<n, d>>: the rational n/d in lowest  *)
(* terms when d > 0, and one of the three special floats when d = 0        *)
(* (<<0,0>> is NaN, <<1,0>> is +inf, <<-1,0>> is -inf).  Arithmetic on     *)
(* finite values is exact; the special values follow IEEE-754 as numpy     *)
(* does.  Binary rounding error of the 64-bit floats is not modelled.      *)
(***************************************************************************)
EXTENDS Integers, Sequences, FiniteSets, TLC

VARIABLES database, pipeline, downloader, csv_inputs, merged_df, pop_project, filtered_df, pop_combined,
          all_counties_2065_combined, df_scaled, results_df,
          csv_combined, csv_indices, pc

vars == <<database, pipeline, downloader, csv_inputs, merged_df, pop_project, filtered_df, pop_combined,
          all_counties_2065_combined, df_scaled, results_df,
          csv_combined, csv_indices, pc>>

(***************************************************************************)
(* Bounds of the model.                                                    *)
(***************************************************************************)
\* rows of the merged indicator frame
MaxRows == 2

(***************************************************************************)
(* Float arithmetic: exact rationals plus NaN and the infinities.          *)
(***************************************************************************)
NaN == <<0, 0>>
PosInf == <<1, 0>>
NegInf == <<-1, 0>>

Abs(x) == IF x < 0 THEN -x ELSE x

Sign(x) == IF x < 0 THEN -1 ELSE IF x > 0 THEN 1 ELSE 0

RECURSIVE GCD(_, _)
GCD(a, b) == IF b = 0 THEN a ELSE GCD(b, a % b)

\* the rational n/d (d # 0) in lowest terms with a positive denominator
Rat(n, d) ==
    LET g == GCD(Abs(n), Abs(d))
        s == IF d < 0 THEN -1 ELSE 1
    IN  <<(s * n) \div g, (s * d) \div g>>

Num(k) == <<k, 1>>

IsNaN(a) == a = NaN
IsInf(a) == a[2] = 0 /\ a[1] # 0
IsFinite(a) == a[2] > 0

FNeg(a) == <<-a[1], a[2]>>

FAdd(a, b) ==
    IF IsNaN(a) \/ IsNaN(b) THEN NaN
    ELSE IF IsInf(a) /\ IsInf(b) THEN (IF a = b THEN a ELSE NaN)
    ELSE IF IsInf(a) THEN a
    ELSE IF IsInf(b) THEN b
    ELSE LET g == GCD(a[2], b[2])
         IN  Rat(a[1] * (b[2] \div g) + b[1] * (a[2] \div g), (a[2] \div g) * b[2])

FSub(a, b) == FAdd(a, FNeg(b))

FMul(a, b) ==
    IF IsNaN(a) \/ IsNaN(b) THEN NaN
    ELSE IF IsInf(a) \/ IsInf(b)
         THEN (IF a[1] = 0 \/ b[1] = 0 THEN NaN
               ELSE <<Sign(a[1]) * Sign(b[1]), 0>>)
    ELSE LET g == GCD(Abs(a[1]), b[2])
             h == GCD(Abs(b[1]), a[2])
         IN  IF a[1] = 0 \/ b[1] = 0 THEN Num(0)
             ELSE Rat((a[1] \div g) * (b[1] \div h), (a[2] \div h) * (b[2] \div g))

\* numpy true division: x/0 is +-inf, 0/0 is NaN, no exception
FDiv(a, b) ==
    IF IsNaN(a) \/ IsNaN(b) THEN NaN
    ELSE IF IsInf(a) THEN (IF IsInf(b) THEN NaN
                           ELSE <<a[1] * (IF b[1] < 0 THEN -1 ELSE 1), 0>>)
    ELSE IF IsInf(b) THEN Num(0)
    ELSE IF b[1] = 0 THEN (IF a[1] = 0 THEN NaN ELSE <<Sign(a[1]), 0>>)
    ELSE FMul(a, Rat(b[2], b[1]))

\* a > b as floats compare: False when either side is NaN
FGt(a, b) ==
    /\ ~IsNaN(a) /\ ~IsNaN(b)
    /\ IF IsInf(a) \/ IsInf(b)
       THEN (a # b /\ (a = PosInf \/ b = NegInf))
       ELSE a[1] * b[2] > b[1] * a[2]

\* the integer nearest n/d (d > 0), a tie going to the even one (numpy.round)
RoundHalfEven(n, d) ==
    LET q == n \div d
        r == n % d
    IN  IF 2 * r < d THEN q
        ELSE IF 2 * r > d THEN q + 1
        ELSE IF q % 2 = 0 THEN q ELSE q + 1

\* Series.round(decimals): NaN and the infinities are left as they are
FRound(a, scale) ==
    IF ~IsFinite(a) THEN a
    ELSE Rat(RoundHalfEven(a[1] * scale, a[2]), scale)

(***************************************************************************)
(* Strings of digits: str(n) and str.zfill(width).                         *)
(***************************************************************************)
RECURSIVE Digits(_)
Digits(n) == IF n < 10 THEN <<n>> ELSE Append(Digits(n \div 10), n % 10)

RECURSIVE ZFill(_, _)
ZFill(s, width) == IF Len(s) >= width THEN s ELSE ZFill(<<0>> \o s, width)

\* Series.astype(str).str.zfill(width) of an integer column
StrZFill(n, width) == ZFill(Digits(n), width)

(***************************************************************************)
(* Columns.  The twelve job_opening_* columns and the three school-age     *)
(* population columns of filter_columns are numeric columns handled        *)
(* exactly like the numeric columns kept here.                             *)
(***************************************************************************)
BASE_YEAR == 2023

FipsWidth == 5
StateWidth == 2
CountyWidth == 3

filter_columns ==
    {"public_school_students", "county_fips", "state", "county", "name",
     "total_employed_population", "total_labor_force", "population", "year",
     "occupied_housing_units"}

columns_to_exclude == {"county_fips", "state", "county", "year", "name", "scenario"}

Scenarios == <<"s3", "s5b", "s5a", "s5c">>

PctCol(scenario) == scenario \o "_percentage_change"

PopCol(scenario) == "population_2065_" \o scenario

\* df[col].unique(): the values of a column in order of first appearance
RECURSIVE Unique(_, _, _)
Unique(df, col, seen) ==
    IF df = <<>> THEN <<>>
    ELSE IF Head(df)[col] \in seen THEN Unique(Tail(df), col, seen)
    ELSE <<Head(df)[col]>> \o Unique(Tail(df), col, seen \cup {Head(df)[col]})

\* a row with the columns of `assigned` set or added
WithCols(row, assigned) ==
    [c \in DOMAIN row \cup DOMAIN assigned |->
        IF c \in DOMAIN assigned THEN assigned[c] ELSE row[c]]

\* a row restricted to a set of columns
Project(row, cols) == [c \in cols |-> row[c]]

(***************************************************************************)
(* Inputs: the merged indicator frame as load_and_merge_data returns it    *)
(* and the population table as joined by process_population_data.          *)
(***************************************************************************)
\* county_fips as pandas reads them from the CSV files (integers)
Fips == {1001, 1003}

\* a county with every indicator table and the school table matching
FullCounty ==
    [population |-> Num(10), public_school_students |-> Num(30),
     public_school_teachers |-> Num(2), total_housing_units |-> Num(20),
     occupied_housing_units |-> Num(15), total_labor_force |-> Num(8),
     total_employed_population |-> Num(6)]

\* a key absent from the school table: the outer join leaves the school columns null
NoSchoolCounty ==
    [population |-> Num(4), public_school_students |-> NaN,
     public_school_teachers |-> NaN, total_housing_units |-> Num(12),
     occupied_housing_units |-> Num(9), total_labor_force |-> Num(5),
     total_employed_population |-> Num(4)]

\* a key present in the school table only: the outer join leaves the other columns null
SchoolOnlyCounty ==
    [population |-> Num(9), public_school_students |-> Num(20),
     public_school_teachers |-> Num(1), total_housing_units |-> NaN,
     occupied_housing_units |-> NaN, total_labor_force |-> NaN,
     total_employed_population |-> NaN]

\* a row of another year: its school columns were set to 0 by load_and_merge_data
EarlierYear ==
    [population |-> Num(8), public_school_students |-> Num(0),
     public_school_teachers |-> Num(0), total_housing_units |-> Num(18),
     occupied_housing_units |-> Num(14), total_labor_force |-> Num(7),
     total_employed_population |-> Num(6)]

MergedRow(fips, year, values) ==
    WithCols(values,
        [county_fips |-> fips, state |-> fips \div 1000, county |-> fips % 1000,
         name |-> <<"county", fips>>, year |-> year])

MergedRows ==
    {MergedRow(f, BASE_YEAR, v) :
        f \in Fips, v \in {FullCounty, NoSchoolCounty, SchoolOnlyCounty}}
    \cup {MergedRow(1001, BASE_YEAR - 1, EarlierYear)}

\* population rows: the 2023 census count and the four 2065 projections
GrowingPop ==
    [population_2023 |-> Num(10), population_2065_s3 |-> Num(15),
     population_2065_s5b |-> Num(8), population_2065_s5a |-> Num(12),
     population_2065_s5c |-> Num(10)]

ShrinkingPop ==
    [population_2023 |-> Num(4), population_2065_s3 |-> Num(5),
     population_2065_s5b |-> Num(1), population_2065_s5a |-> Num(7),
     population_2065_s5c |-> Num(0)]

\* a projection row without a match in the 2023 census file (left join)
UnmatchedPop ==
    [population_2023 |-> NaN, population_2065_s3 |-> Num(5),
     population_2065_s5b |-> Num(1), population_2065_s5a |-> Num(7),
     population_2065_s5c |-> Num(0)]

PopRow(fips, values) == WithCols(values, [county_fips |-> fips])

\* projected populations that are not whole numbers
FractionalPop ==
    [population_2023 |-> Num(10), population_2065_s3 |-> Rat(25, 2),
     population_2065_s5b |-> Rat(15, 2), population_2065_s5a |-> Rat(31, 3),
     population_2065_s5c |-> Rat(21, 2)]

PopChoices == {<<>>, <<GrowingPop>>, <<ShrinkingPop>>, <<UnmatchedPop>>, <<FractionalPop>>}

PopTables ==
    {[i \in 1..Len(a) |-> PopRow(1001, a[i])] \o [i \in 1..Len(b) |-> PopRow(1003, b[i])] :
        a \in PopChoices, b \in PopChoices}

\* the sequences over S of length at most n
SeqsUpTo(S, n) == UNION {[1..k -> S] : k \in 0..n}

(***************************************************************************)
(* prepare_filtered_data and process_population_data                       *)
(***************************************************************************)
PrepareFilteredData(merged) ==
    LET InBaseYear(row) == row["year"] = BASE_YEAR
        kept == SelectSeq(merged, InBaseYear)
    IN  [i \in 1..Len(kept) |->
            WithCols(Project(kept[i], filter_columns),
                     [county_fips |-> StrZFill(kept[i]["county_fips"], FipsWidth)])]

\* the change taken relative to the projected population
PercentageChangeOfProjected(pop_2065, pop_2023) ==
    FMul(FDiv(FSub(pop_2065, pop_2023), pop_2065), Num(100))

\* ((population_2065_X - population_2023) / population_2023) * 100
PercentageChange(pop_2065, pop_2023) ==
    FMul(FDiv(FSub(pop_2065, pop_2023), pop_2023), Num(100))

ProcessPopulationData(pop) ==
    [i \in 1..Len(pop) |->
        WithCols(pop[i],
            [c \in {"county_fips"} \cup {PctCol(Scenarios[k]) : k \in 1..Len(Scenarios)} |->
                IF c = "county_fips" THEN StrZFill(pop[i]["county_fips"], FipsWidth)
                ELSE LET k == CHOOSE j \in 1..Len(Scenarios) : PctCol(Scenarios[j]) = c
                     IN  PercentageChange(pop[i][PopCol(Scenarios[k])],
                                          pop[i]["population_2023"])])]

(***************************************************************************)
(* calculate_projected_values and generate_county_projections              *)
(***************************************************************************)
\* the scaling with the product truncated instead of rounded
ScaledValueTruncated(value, percentage_change) ==
    LET x == FMul(value, FAdd(Num(1), FDiv(percentage_change, Num(100))))
    IN  IF ~IsFinite(x) THEN x ELSE Num(x[1] \div x[2])

\* round(value * (1 + percentage_change / 100))
ScaledValue(value, percentage_change) ==
    FRound(FMul(value, FAdd(Num(1), FDiv(percentage_change, Num(100)))), 1)

\* the columns that calculate_projected_values scales
NumericCols(row) == DOMAIN row \ columns_to_exclude

ProjectedRow(row, percentage_change, scenario_name) ==
    LET tagged == WithCols(row, [scenario |-> scenario_name])
    IN  [c \in DOMAIN tagged |->
            IF c \in NumericCols(row) THEN ScaledValue(tagged[c], percentage_change)
            ELSE tagged[c]]

CalculateProjectedValues(df, base_year, percentage_change, scenario_name) ==
    LET InBaseYear(row) == row["year"] = base_year
        base == SelectSeq(df, InBaseYear)
    IN  [i \in 1..Len(base) |-> ProjectedRow(base[i], percentage_change, scenario_name)]

\* the s5a rows scaled with the change of s5b
ChangeForSwapped(scenario_name, percentage_changes) ==
    percentage_changes[PctCol(IF scenario_name = "s5a" THEN "s5b" ELSE scenario_name)]

\* which percentage change the rows tagged with a scenario are scaled with
ChangeFor(scenario_name, percentage_changes) == percentage_changes[PctCol(scenario_name)]

\* the original rows appended before the projection data is looked up
CountyProjectionsKeepOriginal(county, filtered, pop) ==
    LET OfCounty(row) == row["county_fips"] = county
        county_df == SelectSeq(filtered, OfCounty)
        original_df == [i \in 1..Len(county_df) |->
                            WithCols(county_df[i], [scenario |-> "original"])]
        county_proj == SelectSeq(pop, OfCounty)
        Scenario(s) == CalculateProjectedValues(county_df, BASE_YEAR,
                                                ChangeFor(s, county_proj[1]), s)
    IN  IF county_proj = <<>> THEN original_df
        ELSE original_df \o Scenario("s3") \o Scenario("s5b")
                         \o Scenario("s5a") \o Scenario("s5c")

\* the projection of a county that keeps only its first baseline row
CountyProjectionsFirstRow(county, filtered, pop) ==
    LET OfCounty(row) == row["county_fips"] = county
        county_df == SubSeq(SelectSeq(filtered, OfCounty), 1, 1)
        original_df == [i \in 1..Len(county_df) |->
                            WithCols(county_df[i], [scenario |-> "original"])]
        county_proj == SelectSeq(pop, OfCounty)
        Scenario(s) == CalculateProjectedValues(county_df, BASE_YEAR,
                                                ChangeFor(s, county_proj[1]), s)
    IN  IF county_proj = <<>> THEN <<>>
        ELSE original_df \o Scenario("s3") \o Scenario("s5b")
                         \o Scenario("s5a") \o Scenario("s5c")

\* the projection of a county scaled with the first row of the population
\* table, whichever county that row is for
CountyProjectionsAnyPop(county, filtered, pop) ==
    LET OfCounty(row) == row["county_fips"] = county
        InBaseYear(row) == row["year"] = BASE_YEAR
        county_df == SelectSeq(filtered, OfCounty)
        base == SelectSeq(county_df, InBaseYear)
        original_df == [i \in 1..Len(base) |-> WithCols(base[i], [scenario |-> "original"])]
        Scenario(s) == CalculateProjectedValues(county_df, BASE_YEAR,
                                                ChangeFor(s, pop[1]), s)
    IN  IF pop = <<>> THEN <<>>
        ELSE original_df \o Scenario("s3") \o Scenario("s5b")
                         \o Scenario("s5a") \o Scenario("s5c")

\* the projection of a county whose 'original' rows are scaled like the s3 rows
CountyProjectionsScaledOriginal(county, filtered, pop) ==
    LET OfCounty(row) == row["county_fips"] = county
        county_df == SelectSeq(filtered, OfCounty)
        county_proj == SelectSeq(pop, OfCounty)
        Scenario(s, tag) == CalculateProjectedValues(county_df, BASE_YEAR,
                                                     ChangeFor(s, county_proj[1]), tag)
    IN  IF county_proj = <<>> THEN <<>>
        ELSE Scenario("s3", "original") \o Scenario("s3", "s3") \o Scenario("s5b", "s5b")
                         \o Scenario("s5a", "s5a") \o Scenario("s5c", "s5c")

\* the rows generate_county_projections appends for one county
CountyProjections(county, filtered, pop) ==
    LET OfCounty(row) == row["county_fips"] = county
        InBaseYear(row) == row["year"] = BASE_YEAR
        county_df == SelectSeq(filtered, OfCounty)
        base == SelectSeq(county_df, InBaseYear)
        original_df == [i \in 1..Len(base) |-> WithCols(base[i], [scenario |-> "original"])]
        county_proj == SelectSeq(pop, OfCounty)
        Scenario(s) == CalculateProjectedValues(county_df, BASE_YEAR,
                                                ChangeFor(s, county_proj[1]), s)
    IN  IF county_proj = <<>> THEN <<>>
        ELSE original_df \o Scenario("s3") \o Scenario("s5b")
                         \o Scenario("s5a") \o Scenario("s5c")

RECURSIVE ProjectCounties(_, _, _)
ProjectCounties(counties, filtered, pop) ==
    IF counties = <<>> THEN <<>>
    ELSE CountyProjections(Head(counties), filtered, pop)
            \o ProjectCounties(Tail(counties), filtered, pop)

GenerateCountyProjections(filtered, pop) ==
    ProjectCounties(Unique(filtered, "county_fips", {}), filtered, pop)

(***************************************************************************)
(* calculate_derived_metrics                                               *)
(***************************************************************************)
\* df.loc[mask, col] = value, mask and value given row by row: the rows outside
\* the mask keep their cell, or get NaN when the assignment creates the column
AssignMasked(df, mask, col, value) ==
    [i \in 1..Len(df) |->
        IF mask[i] THEN WithCols(df[i], [c \in {col} |-> value[i]])
        ELSE IF col \in DOMAIN df[i] THEN df[i]
        ELSE WithCols(df[i], [c \in {col} |-> NaN])]

\* series.values[0] if not series.empty else 1
FirstOrOne(county_df, col) ==
    IF county_df # <<>> THEN county_df[1][col] ELSE Num(1)

\* the 2023 value student_teacher_ratio is computed from
TeacherCount(county_df, row) == FirstOrOne(county_df, "public_school_teachers")

\* the 2023 value available_housing_units is computed from
HousingUnitsCount(county_df, row) == FirstOrOne(county_df, "total_housing_units")

\* the employed population of the projected row itself
EmployedPopulationOfRow(county_df, row) == row["total_employed_population"]

\* the 2023 value total_employed_percentage is computed from
EmployedPopulationCount(county_df, row) == FirstOrOne(county_df, "total_employed_population")

\* the rate as a fraction of 1
UnemploymentRateOfOne(row) == FSub(Num(1), row["total_employed_percentage"])

\* 100 - total_employed_percentage
UnemploymentRate(row) == FSub(Num(100), row["total_employed_percentage"])

\* one iteration of the loop over the counties of the 2023 merged data
DerivedForCounty(df, county, merged_df_2023) ==
    LET OfCounty(row) == row["county_fips"] = county
        county_df == SelectSeq(merged_df_2023, OfCounty)
        mask == [i \in 1..Len(df) |-> OfCounty(df[i])]
        Ratio(row) == FDiv(row["public_school_students"], TeacherCount(county_df, row))
        Housing(row) == FSub(HousingUnitsCount(county_df, row), row["occupied_housing_units"])
        Employed(row) ==
            FMul(FDiv(EmployedPopulationCount(county_df, row), row["total_labor_force"]),
                 Num(100))
        df1 == AssignMasked(df, mask, "student_teacher_ratio",
                            [i \in 1..Len(df) |-> IF mask[i] THEN Ratio(df[i]) ELSE NaN])
        df2 == AssignMasked(df1, mask, "available_housing_units",
                            [i \in 1..Len(df) |-> IF mask[i] THEN Housing(df1[i]) ELSE NaN])
        df3 == AssignMasked(df2, mask, "total_employed_percentage",
                            [i \in 1..Len(df) |-> IF mask[i] THEN Employed(df2[i]) ELSE NaN])
    IN  AssignMasked(df3, mask, "unemployment_rate",
                     [i \in 1..Len(df) |-> IF mask[i] THEN UnemploymentRate(df3[i]) ELSE NaN])

RECURSIVE DerivedLoop(_, _, _)
DerivedLoop(df, counties, merged_df_2023) ==
    IF counties = <<>> THEN df
    ELSE DerivedLoop(DerivedForCounty(df, Head(counties), merged_df_2023),
                     Tail(counties), merged_df_2023)

\* the counties the loop of calculate_derived_metrics visits
DerivedCounties(merged_df_2023) == Unique(merged_df_2023, "county_fips", {})

\* the frame is not empty here: an empty frame has no columns and raises KeyError
CalculateDerivedMetrics(df, merged) ==
    LET InBaseYear(row) == row["year"] = BASE_YEAR
        kept == SelectSeq(merged, InBaseYear)
        merged_df_2023 ==
            [i \in 1..Len(kept) |->
                WithCols(kept[i],
                    [county_fips |-> StrZFill(kept[i]["county_fips"], FipsWidth)])]
        looped == DerivedLoop(df, DerivedCounties(merged_df_2023), merged_df_2023)
    IN  [i \in 1..Len(looped) |->
            WithCols(looped[i],
                [state |-> StrZFill(looped[i]["state"], StateWidth),
                 county |-> StrZFill(looped[i]["county"], CountyWidth)])]

(***************************************************************************)
(* calculate_z_scores                                                      *)
(***************************************************************************)
indicators == <<"student_teacher_ratio", "available_housing_units", "unemployment_rate">>

\* the decimals of .round(4)
ZDecimals == 4

RECURSIVE Pow10(_)
Pow10(k) == IF k = 0 THEN 1 ELSE 10 * Pow10(k - 1)

RECURSIVE SumOf(_)
SumOf(values) == IF values = <<>> THEN Num(0) ELSE FAdd(Head(values), SumOf(Tail(values)))

NotNaN(a) == ~IsNaN(a)

\* Series.mean(): NaN cells are skipped
Mean(values) ==
    LET present == SelectSeq(values, NotNaN)
    IN  FDiv(SumOf(present), Num(Len(present)))

\* the sum of squared deviations from the mean over the cells that are not NaN
SquaredDeviations(values) ==
    LET present == SelectSeq(values, NotNaN)
        mean == Mean(values)
    IN  SumOf([i \in 1..Len(present) |->
                FMul(FSub(present[i], mean), FSub(present[i], mean))])

\* the square of Series.std(): sample variance (ddof = 1), NaN for a single value
SampleVariance(values) ==
    FDiv(SquaredDeviations(values), Num(Len(SelectSeq(values, NotNaN)) - 1))

\* floor(n * 10^digits * 4 / d) and whether the division is exact, by long division
RECURSIVE ScaledFloor(_, _, _, _)
ScaledFloor(q, r, d, digits) ==
    IF digits = 0 THEN <<4 * q + (4 * r) \div d, (4 * r) % d = 0>>
    ELSE ScaledFloor(10 * q + (10 * r) \div d, (10 * r) % d, d, digits - 1)

\* m * m <= n for 0 <= n < 2^31, without computing a square above 2^31
SquareLeq(m, n) == m <= 46340 /\ m * m <= n

\* floor(sqrt(n)), known to lie in lo .. lo + width - 1, by a search that splits
\* the interval in 16 parts
RECURSIVE ISqrtBetween(_, _, _)
ISqrtBetween(n, lo, width) ==
    IF width = 1 THEN lo
    ELSE LET step == width \div 16
             part == CHOOSE d \in 0..15 :
                        /\ SquareLeq(lo + d * step, n)
                        /\ ~SquareLeq(lo + (d + 1) * step, n)
         IN  ISqrtBetween(n, lo + part * step, step)

\* floor(sqrt(n)) for 0 <= n < 2^31
ISqrt(n) == ISqrtBetween(n, 0, 65536)

\* round(sqrt(n/d) * 10^digits) for a rational 0 <= n/d, ties to even
RoundedRoot(n, d, digits) ==
    LET fl == ScaledFloor(n \div d, n % d, d, 2 * digits)
        s == ISqrt(fl[1])
        exact == fl[2] /\ s * s = fl[1]
    IN  IF exact /\ s % 2 = 1
        THEN (IF ((s - 1) \div 2) % 2 = 0 THEN (s - 1) \div 2 ELSE (s + 1) \div 2)
        ELSE (s + 1) \div 2

\* the magnitude of the rounded score, without the sign of the deviation
ZScoreUnsigned(value, mean, variance) ==
    LET dev == FSub(value, mean)
        sq == FDiv(FMul(dev, dev), variance)
    IN  IF ~IsFinite(sq) THEN NaN
        ELSE Rat(RoundedRoot(sq[1], sq[2], ZDecimals), Pow10(ZDecimals))

\* ((value - mean) / std).round(4), std being the square root of `variance`
ZScore(value, mean, variance) ==
    LET dev == FSub(value, mean)
        sq == FDiv(FMul(dev, dev), variance)
    IN  IF ~IsFinite(sq) THEN NaN
        ELSE Rat(Sign(dev[1]) * RoundedRoot(sq[1], sq[2], ZDecimals), Pow10(ZDecimals))

\* the rows that carry the scenario label of the first row of the frame,
\* whatever the scenario asked for
FirstCohort(df, scenario) ==
    LET OfFirst(row) == row["scenario"] = df[1]["scenario"]
    IN  SelectSeq(df, OfFirst)

\* the rows whose cells enter the mean and the standard deviation of a row's z-score
Cohort(df, scenario) ==
    LET OfScenario(row) == row["scenario"] = scenario
    IN  SelectSeq(df, OfScenario)

Column(df, col) == [i \in 1..Len(df) |-> df[i][col]]

\* the body of the loop over the indicators, for one scenario and one indicator
ZScoresFor(df, scenario, indicator) ==
    LET scenario_mask == [i \in 1..Len(df) |-> df[i]["scenario"] = scenario]
        data == Column(Cohort(df, scenario), indicator)
        mean == Mean(data)
        variance == SampleVariance(data)
    IN  IF SelectSeq(data, NotNaN) = <<>> THEN df
        ELSE IF variance = Num(0)
        THEN AssignMasked(df, scenario_mask, "z_" \o indicator,
                          [i \in 1..Len(df) |-> Num(0)])
        ELSE AssignMasked(df, scenario_mask, "z_" \o indicator,
                          [i \in 1..Len(df) |->
                              IF scenario_mask[i] THEN ZScore(df[i][indicator], mean, variance)
                              ELSE NaN])

\* the loop over the indicators, for one scenario
RECURSIVE IndicatorLoop(_, _, _)
IndicatorLoop(df, scenario, k) ==
    IF k > Len(indicators) THEN df
    ELSE IndicatorLoop(ZScoresFor(df, scenario, indicators[k]), scenario, k + 1)

\* the loop over the scenarios; the frame of each pass is evaluated before the
\* next pass starts
RECURSIVE ZScoreLoop(_, _)
ZScoreLoop(df, scenarios) ==
    IF df = <<>> \/ scenarios = <<>> THEN df
    ELSE ZScoreLoop(IndicatorLoop(df, Head(scenarios), 1), Tail(scenarios))

CalculateZScores(df) == ZScoreLoop(df, Unique(df, "scenario", {}))

(***************************************************************************)
(* calculate_indices.  A standardized score of StandardScaler is not       *)
(* rounded and in general irrational: it is kept as its sign and its       *)
(* square, [sgn |-> s, sq |-> q] standing for s * sqrt(q).  A composite    *)
(* index is kept as its three terms, in the order the code adds them, each *)
(* a score and its weight in hundredths.                                   *)
(***************************************************************************)
cols == <<"unemployment_rate", "student_teacher_ratio", "available_housing_units">>

SurdNaN == [sgn |-> 0, sq |-> NaN]

\* StandardScaler: population variance (ddof = 0) over the cells that are not NaN
PopulationVariance(values) ==
    FDiv(SquaredDeviations(values), Num(Len(SelectSeq(values, NotNaN))))

\* (value - mean_) / scale_, scale_ being 1 for a feature of zero variance
Standardize(value, mean, variance) ==
    LET dev == FSub(value, mean)
        sq == IF variance = Num(0) THEN FMul(dev, dev)
              ELSE FDiv(FMul(dev, dev), variance)
    IN  IF ~IsFinite(sq) THEN SurdNaN ELSE [sgn |-> Sign(dev[1]), sq |-> sq]

\* the rows StandardScaler.fit takes the mean and the variance of column col from
FitRows(index_df, row) == index_df

\* z_scaler.fit_transform(index_df[cols]), one column of it
Standardized(index_df, row, col) ==
    LET data == Column(FitRows(index_df, row), col)
    IN  Standardize(row[col], Mean(data), PopulationVariance(data))

\* -z
Flip(z) == [sgn |-> -z.sgn, sq |-> z.sq]

\* the product z * (weight / 100), kept as its two factors
Weighted(z, weight) == [z |-> z, weight |-> weight]

\* the weighted sum without the sign flip of the student-teacher score
IndexUnflipped(row, wu, ws, wh) ==
    <<Weighted(Flip(row["z_unemployment_rate"]), wu),
      Weighted(row["z_student_teacher_ratio"], ws),
      Weighted(row["z_available_housing_units"], wh)>>

\* (-z_unemployment_rate) * wu + (-z_student_teacher_ratio) * ws + z_available_housing_units * wh
Index(row, wu, ws, wh) ==
    <<Weighted(Flip(row["z_unemployment_rate"]), wu),
      Weighted(Flip(row["z_student_teacher_ratio"]), ws),
      Weighted(row["z_available_housing_units"], wh)>>

\* the rows whose student count is present, zero included
SchoolDataPresent(row) == ~IsNaN(row["public_school_students"])

HasSchoolData(row) == FGt(row["public_school_students"], Num(0))

\* index_df: the counties with school data
IndexFrame(df) == SelectSeq(df, HasSchoolData)

\* sklearn rejects an empty frame and a frame holding an infinity with ValueError
ScalerRaises(index_df) ==
    \/ index_df = <<>>
    \/ \E i \in 1..Len(index_df) : \E k \in 1..Len(cols) : IsInf(index_df[i][cols[k]])

\* df_scaled of calculate_indices
ScaledFrame(df) ==
    LET index_df == IndexFrame(df)
        scaled == [i \in 1..Len(index_df) |->
                    WithCols(index_df[i],
                        [c \in {"z_" \o cols[k] : k \in 1..Len(cols)} |->
                            LET k == CHOOSE j \in 1..Len(cols) : "z_" \o cols[j] = c
                            IN  Standardized(index_df, index_df[i], cols[k])])]
    IN  [i \in 1..Len(scaled) |->
            WithCols(scaled[i],
                [index_balanced |-> Index(scaled[i], 33, 33, 33),
                 index_employment |-> Index(scaled[i], 60, 20, 20),
                 index_housing |-> Index(scaled[i], 20, 20, 60),
                 index_education |-> Index(scaled[i], 20, 60, 20)])]

result_columns ==
    {"county_fips", "scenario", "index_balanced", "index_employment",
     "index_housing", "index_education"}

CalculateIndices(df) ==
    LET scaled == ScaledFrame(df)
    IN  [i \in 1..Len(scaled) |-> Project(scaled[i], result_columns)]

(***************************************************************************)
(* main(): one action per call, in the order main makes them.              *)
(*   merged_df     what load_and_merge_data returned                       *)
(*   pop_project   the population table before the percentage changes      *)
(*   csv_*         the two output files, with the run that wrote them      *)
(***************************************************************************)
PreviousRun == [run |-> "previous", rows |-> <<>>]

\* csv_inputs while the five tables of load_and_merge_data have not been read
NotRead == <<>>

\* pipeline while run_data_pipeline has not been started
NotRun == [pc |-> "not_run"]

\* database while no program has connected to PostgreSQL
NotConnected == [pc |-> "not_connected"]

\* downloader while no DataDownloader has been constructed
NotConstructed == [pc |-> "not_constructed"]

Init ==
    /\ merged_df \in SeqsUpTo(MergedRows, MaxRows)
    /\ pop_project \in PopTables
    /\ filtered_df = <<>>
    /\ pop_combined = <<>>
    /\ all_counties_2065_combined = <<>>
    /\ df_scaled = <<>>
    /\ results_df = <<>>
    /\ csv_combined = PreviousRun
    /\ csv_indices = PreviousRun
    /\ csv_inputs = NotRead
    /\ pipeline = NotRun
    /\ downloader = NotConstructed
    /\ database = NotConnected
    /\ pc = "start"

Prepare ==
    /\ pc = "start"
    /\ filtered_df' = PrepareFilteredData(merged_df)
    /\ pc' = "filtered"
    /\ UNCHANGED <<database, pipeline, downloader, csv_inputs, merged_df, pop_project, pop_combined, all_counties_2065_combined,
                   df_scaled, results_df, csv_combined, csv_indices>>

ProcessPopulation ==
    /\ pc = "filtered"
    /\ pop_combined' = ProcessPopulationData(pop_project)
    /\ pc' = "population"
    /\ UNCHANGED <<database, pipeline, downloader, csv_inputs, merged_df, pop_project, filtered_df, all_counties_2065_combined,
                   df_scaled, results_df, csv_combined, csv_indices>>

GenerateProjections ==
    /\ pc = "population"
    /\ all_counties_2065_combined' = GenerateCountyProjections(filtered_df, pop_combined)
    /\ pc' = "projected"
    /\ UNCHANGED <<database, pipeline, downloader, csv_inputs, merged_df, pop_project, filtered_df, pop_combined,
                   df_scaled, results_df, csv_combined, csv_indices>>

DerivedMetrics ==
    /\ pc = "projected"
    /\ all_counties_2065_combined # <<>>
    /\ all_counties_2065_combined' =
            CalculateDerivedMetrics(all_counties_2065_combined, merged_df)
    /\ pc' = "derived"
    /\ UNCHANGED <<database, pipeline, downloader, csv_inputs, merged_df, pop_project, filtered_df, pop_combined,
                   df_scaled, results_df, csv_combined, csv_indices>>

\* no county was projected: the frame has no columns and the first column access raises
DerivedMetricsRaises ==
    /\ pc = "projected"
    /\ all_counties_2065_combined = <<>>
    /\ pc' = "aborted"
    /\ UNCHANGED <<database, pipeline, downloader, csv_inputs, merged_df, pop_project, filtered_df, pop_combined,
                   all_counties_2065_combined, df_scaled, results_df,
                   csv_combined, csv_indices>>

ZScores ==
    /\ pc = "derived"
    /\ all_counties_2065_combined' = CalculateZScores(all_counties_2065_combined)
    /\ pc' = "z_scored"
    /\ UNCHANGED <<database, pipeline, downloader, csv_inputs, merged_df, pop_project, filtered_df, pop_combined,
                   df_scaled, results_df, csv_combined, csv_indices>>

\* DataFrame.to_csv appending to the file instead of replacing it
SaveCombinedAppending ==
    /\ pc = "z_scored"
    /\ csv_combined' = [run |-> "this",
                        rows |-> csv_combined.rows \o all_counties_2065_combined]
    /\ pc' = "saved_combined"
    /\ UNCHANGED <<database, pipeline, downloader, csv_inputs, merged_df, pop_project, filtered_df, pop_combined,
                   all_counties_2065_combined, df_scaled, results_df, csv_indices>>

SaveCombined ==
    /\ pc = "z_scored"
    /\ csv_combined' = [run |-> "this", rows |-> all_counties_2065_combined]
    /\ pc' = "saved_combined"
    /\ UNCHANGED <<database, pipeline, downloader, csv_inputs, merged_df, pop_project, filtered_df, pop_combined,
                   all_counties_2065_combined, df_scaled, results_df, csv_indices>>

Indices ==
    /\ pc = "saved_combined"
    /\ ~ScalerRaises(IndexFrame(all_counties_2065_combined))
    /\ df_scaled' = ScaledFrame(all_counties_2065_combined)
    /\ results_df' = CalculateIndices(all_counties_2065_combined)
    /\ pc' = "indexed"
    /\ UNCHANGED <<database, pipeline, downloader, csv_inputs, merged_df, pop_project, filtered_df, pop_combined,
                   all_counties_2065_combined, csv_combined, csv_indices>>

IndicesRaises ==
    /\ pc = "saved_combined"
    /\ ScalerRaises(IndexFrame(all_counties_2065_combined))
    /\ pc' = "aborted"
    /\ UNCHANGED <<database, pipeline, downloader, csv_inputs, merged_df, pop_project, filtered_df, pop_combined,
                   all_counties_2065_combined, df_scaled, results_df,
                   csv_combined, csv_indices>>

SaveIndices ==
    /\ pc = "indexed"
    /\ csv_indices' = [run |-> "this", rows |-> results_df]
    /\ pc' = "done"
    /\ UNCHANGED <<database, pipeline, downloader, csv_inputs, merged_df, pop_project, filtered_df, pop_combined,
                   all_counties_2065_combined, df_scaled, results_df, csv_combined>>

Next ==
    \/ Prepare
    \/ ProcessPopulation
    \/ GenerateProjections
    \/ DerivedMetrics
    \/ DerivedMetricsRaises
    \/ ZScores
    \/ SaveCombined
    \/ Indices
    \/ IndicesRaises
    \/ SaveIndices

Spec == Init /\ [][Next]_vars

(***************************************************************************)
(* Properties of generate_county_projections.                              *)
(***************************************************************************)
ScenarioTags == {"original", "s3", "s5a", "s5b", "s5c"}

CountiesOf(df) == {df[i]["county_fips"] : i \in 1..Len(df)}

CountyRows(df, county) ==
    LET OfCounty(row) == row["county_fips"] = county
    IN  SelectSeq(df, OfCounty)

Tagged(df, county, tag) ==
    LET Is(row) == row["county_fips"] = county /\ row["scenario"] = tag
    IN  SelectSeq(df, Is)

\* the counties of the filtered frame that have a row in the population table
ProjectedCounties == CountiesOf(filtered_df) \cap CountiesOf(pop_combined)

\* k is x rounded to the nearest integer, a tie to the even one; NaN and inf stay
IsRoundOf(k, x) ==
    IF ~IsFinite(x) THEN k = x
    ELSE /\ IsFinite(k) /\ k[2] = 1
         /\ LET diff == FSub(k, x)
            IN  /\ 2 * Abs(diff[1]) <= diff[2]
                /\ (2 * Abs(diff[1]) = diff[2] => k[1] % 2 = 0)

\* C1 as stated: every county of the filtered 2023 frame that has a row in the
\* population table gets exactly 5 output rows, one per scenario tag.
C1_FiveRowsPerCounty ==
    pc = "projected" =>
        \A c \in ProjectedCounties :
            /\ Len(CountyRows(all_counties_2065_combined, c)) = 5
            /\ \A tag \in ScenarioTags : Len(Tagged(all_counties_2065_combined, c, tag)) = 1

\* C1 amended: such a county gets 5 output rows for each of its rows in the
\* filtered frame: every scenario tag occurs once per filtered row of the county,
\* and the output holds no other row.
C1_FiveRowsPerBaselineRow ==
    pc = "projected" =>
        /\ \A c \in ProjectedCounties :
            /\ Len(CountyRows(all_counties_2065_combined, c))
                    = 5 * Len(CountyRows(filtered_df, c))
            /\ \A tag \in ScenarioTags :
                    Len(Tagged(all_counties_2065_combined, c, tag))
                        = Len(CountyRows(filtered_df, c))
            /\ \A i \in 1..Len(all_counties_2065_combined) :
                    all_counties_2065_combined[i]["scenario"] \in ScenarioTags
        /\ CountiesOf(all_counties_2065_combined) = ProjectedCounties

\* a county with two rows in the filtered frame has been projected, and another
\* run projects a county with one row
C1_Witness ==
    /\ pc = "projected"
    /\ \E c \in ProjectedCounties :
        /\ Len(CountyRows(filtered_df, c)) = 2
        /\ Len(CountyRows(all_counties_2065_combined, c)) = 10

\* C2: in every scenario row, each column other than county_fips, state, county,
\* year, name and scenario is round(v * (1 + pct_change/100)) for v the value of
\* the county's baseline row and pct_change the scenario's percentage change
\* (Python's round: a tie goes to the even integer); 100000 at 12.5% is 112500.
C2_ScaledIsRounded ==
    /\ ScaledValue(Num(100000), Rat(25, 2)) = Num(112500)
    /\ pc = "projected" =>
        \A c \in ProjectedCounties : \A k \in 1..Len(Scenarios) :
            LET base == CountyRows(filtered_df, c)
                rows == Tagged(all_counties_2065_combined, c, Scenarios[k])
                pct == CountyRows(pop_combined, c)[1][PctCol(Scenarios[k])]
            IN  /\ Len(rows) = Len(base)
                /\ \A j \in 1..Len(rows) :
                    \A col \in DOMAIN base[j] \
                            {"county_fips", "state", "county", "year", "name", "scenario"} :
                        IsRoundOf(rows[j][col],
                                  FMul(base[j][col],
                                       FAdd(Num(1), FDiv(pct, Num(100)))))

\* a population of 10 scaled by 25% (12.5) was rounded to 12
C2_Witness ==
    /\ pc = "projected"
    /\ \E c \in ProjectedCounties :
        /\ CountyRows(pop_combined, c)[1][PctCol("s3")] = Num(25)
        /\ CountyRows(filtered_df, c)[1]["population"] = Num(10)
        /\ Tagged(all_counties_2065_combined, c, "s3")[1]["population"] = Num(12)

\* the population rows of a county as they were read, before process_population_data
InputPopRows(county) ==
    LET OfCounty(row) == StrZFill(row["county_fips"], FipsWidth) = county
    IN  SelectSeq(pop_project, OfCounty)

\* C3: the percentage change of scenario X is
\* ((population_2065_X - population_2023) / population_2023) * 100 over the county's
\* own populations, and the rows tagged X are scaled with X's change only.
C3_OwnScenarioChange ==
    /\ pc \notin {"start", "filtered"} =>
        \A i \in 1..Len(pop_combined) : \A k \in 1..Len(Scenarios) :
            pop_combined[i][PctCol(Scenarios[k])]
                = FMul(FDiv(FSub(pop_project[i]["population_2065_" \o Scenarios[k]],
                                 pop_project[i]["population_2023"]),
                            pop_project[i]["population_2023"]),
                       Num(100))
    /\ pc = "projected" =>
        \A c \in ProjectedCounties : \A k \in 1..Len(Scenarios) :
            LET base == CountyRows(filtered_df, c)
                rows == Tagged(all_counties_2065_combined, c, Scenarios[k])
                pop == InputPopRows(c)[1]
                pct == FMul(FDiv(FSub(pop["population_2065_" \o Scenarios[k]],
                                      pop["population_2023"]),
                                 pop["population_2023"]),
                            Num(100))
            IN  \A j \in 1..Len(rows) : \A col \in NumericCols(base[j]) :
                    IsRoundOf(rows[j][col],
                              FMul(base[j][col], FAdd(Num(1), FDiv(pct, Num(100)))))

\* a county whose s5a and s5b rows were scaled differently (12 and 8 from 10)
C3_Witness ==
    /\ pc = "projected"
    /\ \E c \in ProjectedCounties :
        /\ CountyRows(filtered_df, c)[1]["population"] = Num(10)
        /\ Tagged(all_counties_2065_combined, c, "s5a")[1]["population"] = Num(12)
        /\ Tagged(all_counties_2065_combined, c, "s5b")[1]["population"] = Num(8)

\* C4: a county of the filtered frame without a row in the population table gets
\* no output row at all, and the other counties still get theirs.
C4_MissingCountySkipped ==
    pc = "projected" =>
        /\ \A c \in CountiesOf(filtered_df) \ CountiesOf(pop_combined) :
                CountyRows(all_counties_2065_combined, c) = <<>>
        /\ \A c \in ProjectedCounties : \A tag \in ScenarioTags :
                Len(Tagged(all_counties_2065_combined, c, tag))
                    = Len(CountyRows(filtered_df, c))

\* one county was skipped for want of projection data and another was projected
C4_Witness ==
    /\ pc = "projected"
    /\ CountiesOf(filtered_df) \ CountiesOf(pop_combined) # {}
    /\ ProjectedCounties # {}
    /\ all_counties_2065_combined # <<>>

(***************************************************************************)
(* Properties of calculate_derived_metrics.                                *)
(***************************************************************************)
\* the 2023 rows of the merged data for a county, in frame order
Baseline2023(county) ==
    LET Is(row) == /\ row["year"] = 2023
                   /\ StrZFill(row["county_fips"], FipsWidth) = county
    IN  SelectSeq(merged_df, Is)

\* C5: every row of a county, whatever its scenario, gets
\* student_teacher_ratio = row.public_school_students / teachers_2023,
\* available_housing_units = housing_units_2023 - row.occupied_housing_units and
\* total_employed_percentage = (employed_population_2023 / row.total_labor_force) * 100,
\* the three 2023 quantities being the unscaled values of the merged 2023 data.
C5_DerivedFromBaseline ==
    pc = "derived" =>
        \A i \in 1..Len(all_counties_2065_combined) :
            LET row == all_counties_2065_combined[i]
                base == Baseline2023(row["county_fips"])[1]
            IN  /\ row["student_teacher_ratio"]
                    = FDiv(row["public_school_students"], base["public_school_teachers"])
                /\ row["available_housing_units"]
                    = FSub(base["total_housing_units"], row["occupied_housing_units"])
                /\ row["total_employed_percentage"]
                    = FMul(FDiv(base["total_employed_population"], row["total_labor_force"]),
                           Num(100))

\* a scenario row whose own employed population was scaled away from the 2023
\* value has its metrics computed
C5_Witness ==
    /\ pc = "derived"
    /\ \E i \in 1..Len(all_counties_2065_combined) :
        LET row == all_counties_2065_combined[i]
            base == Baseline2023(row["county_fips"])[1]
        IN  /\ row["scenario"] # "original"
            /\ IsFinite(row["total_employed_population"])
            /\ row["total_employed_population"] # base["total_employed_population"]
            /\ IsFinite(row["total_employed_percentage"])
            /\ IsFinite(row["student_teacher_ratio"])

\* C6 as stated: unemployment_rate + total_employed_percentage == 100 in every row.
C6_SumIsHundred ==
    pc = "derived" =>
        \A i \in 1..Len(all_counties_2065_combined) :
            FAdd(all_counties_2065_combined[i]["unemployment_rate"],
                 all_counties_2065_combined[i]["total_employed_percentage"]) = Num(100)

\* C6 amended: unemployment_rate is 100 - total_employed_percentage in every row;
\* the two add up to 100 in every row whose total_employed_percentage is a finite
\* number, and to NaN in the rows where it is NaN or infinite (labor force or
\* employed baseline missing, labor force 0).
C6_SumIsHundredWhenFinite ==
    pc = "derived" =>
        \A i \in 1..Len(all_counties_2065_combined) :
            LET row == all_counties_2065_combined[i]
                sum == FAdd(row["unemployment_rate"], row["total_employed_percentage"])
            IN  IF IsFinite(row["total_employed_percentage"])
                THEN sum = Num(100)
                ELSE /\ IsNaN(sum)
                     /\ \/ ~IsFinite(row["total_labor_force"])
                        \/ row["total_labor_force"] = Num(0)
                        \/ ~IsFinite(Baseline2023(row["county_fips"])[1]
                                        ["total_employed_population"])

\* one row adds up to 100 with a rate strictly between 0 and 100, another row
\* has a labor force of 0 and an infinite percentage
C6_Witness ==
    /\ pc = "derived"
    /\ \E i \in 1..Len(all_counties_2065_combined) :
        /\ FGt(all_counties_2065_combined[i]["unemployment_rate"], Num(0))
        /\ FGt(Num(100), all_counties_2065_combined[i]["unemployment_rate"])
    /\ \E i \in 1..Len(all_counties_2065_combined) :
        /\ all_counties_2065_combined[i]["total_labor_force"] = Num(0)
        /\ IsInf(all_counties_2065_combined[i]["total_employed_percentage"])

(***************************************************************************)
(* calculate_derived_metrics called on its own: the projected frame and    *)
(* the merged data are independent arguments.                              *)
(***************************************************************************)
\* the projections of one baseline row
OneCountyProjections ==
    {GenerateCountyProjections(PrepareFilteredData(<<row>>), ProcessPopulationData(pop)) :
        row \in MergedRows, pop \in PopTables} \ {<<>>}

InitDerived ==
    /\ merged_df \in SeqsUpTo(MergedRows, MaxRows)
    /\ all_counties_2065_combined \in OneCountyProjections
    /\ pop_project = <<>>
    /\ filtered_df = <<>>
    /\ pop_combined = <<>>
    /\ df_scaled = <<>>
    /\ results_df = <<>>
    /\ csv_combined = PreviousRun
    /\ csv_indices = PreviousRun
    /\ csv_inputs = NotRead
    /\ pipeline = NotRun
    /\ downloader = NotConstructed
    /\ database = NotConnected
    /\ pc = "derived_call"

DerivedMetricsCall ==
    /\ pc = "derived_call"
    /\ all_counties_2065_combined' =
            CalculateDerivedMetrics(all_counties_2065_combined, merged_df)
    /\ pc' = "derived_return"
    /\ UNCHANGED <<database, pipeline, downloader, csv_inputs, merged_df, pop_project, filtered_df, pop_combined,
                   df_scaled, results_df, csv_combined, csv_indices>>

NextDerived == DerivedMetricsCall

SpecDerived == InitDerived /\ [][NextDerived]_vars

\* C7: the rows of a county without a 2023 baseline row in the merged data get
\* their derived metrics computed with 1 in place of the teacher, housing-unit
\* and employed-population values.
C7_FallbackToOne ==
    pc = "derived_return" =>
        \A i \in 1..Len(all_counties_2065_combined) :
            LET row == all_counties_2065_combined[i]
            IN  Baseline2023(row["county_fips"]) = <<>> =>
                    /\ {"student_teacher_ratio", "available_housing_units",
                        "total_employed_percentage", "unemployment_rate"} \subseteq DOMAIN row
                    /\ row["student_teacher_ratio"]
                        = FDiv(row["public_school_students"], Num(1))
                    /\ row["available_housing_units"]
                        = FSub(Num(1), row["occupied_housing_units"])
                    /\ row["total_employed_percentage"]
                        = FMul(FDiv(Num(1), row["total_labor_force"]), Num(100))

(***************************************************************************)
(* Properties of calculate_z_scores and calculate_indices.                 *)
(***************************************************************************)
\* a natural number below 2^31 in base 10^4, least significant limb first
Limbs(n) == <<n % 10000, (n \div 10000) % 10000, n \div 100000000>>

\* the carries of a sequence of limb sums propagated upwards
RECURSIVE Carried(_, _)
Carried(sums, carry) ==
    IF sums = <<>> THEN <<carry>>
    ELSE <<(Head(sums) + carry) % 10000>>
            \o Carried(Tail(sums), (Head(sums) + carry) \div 10000)

\* the product a * b of two naturals below 2^31, as six limbs
Product(a, b) ==
    LET x == Limbs(a)
        y == Limbs(b)
    IN  Carried(<<x[1] * y[1],
                  x[1] * y[2] + x[2] * y[1],
                  x[1] * y[3] + x[2] * y[2] + x[3] * y[1],
                  x[2] * y[3] + x[3] * y[2],
                  x[3] * y[3]>>, 0)

\* x <= y for two numbers of six limbs
RECURSIVE LimbsLeq(_, _, _)
LimbsLeq(x, y, k) ==
    IF k = 0 THEN TRUE
    ELSE IF x[k] # y[k] THEN x[k] < y[k]
    ELSE LimbsLeq(x, y, k - 1)

\* a * b <= c * d, without overflow
ProductLeq(a, b, c, d) == LimbsLeq(Product(a, b), Product(c, d), 6)

\* z is (dev / sqrt(variance)) rounded to 4 decimals: z * 10^4 is an integer K
\* with the sign of dev and | |K| - 10^4 * |dev| / sqrt(variance) | <= 1/2
IsZScoreOf(z, dev, variance) ==
    LET sq == FDiv(FMul(dev, dev), variance)
        K == Abs(z[1]) * (10000 \div z[2])
    IN  /\ IsFinite(z) /\ 10000 % z[2] = 0
        /\ z[1] # 0 => Sign(z[1]) = Sign(dev[1])
        /\ K > 0 => ProductLeq((2 * K - 1) * (2 * K - 1), sq[2], 400000000, sq[1])
        /\ ProductLeq(400000000, sq[1], (2 * K + 1) * (2 * K + 1), sq[2])

\* the cells of an indicator over the rows of a frame that carry a scenario label
CohortCells(df, scenario, indicator) ==
    LET Is(row) == row["scenario"] = scenario
        rows == SelectSeq(df, Is)
    IN  [i \in 1..Len(rows) |-> rows[i][indicator]]

AllFinite(values) == \A i \in 1..Len(values) : IsFinite(values[i])

\* C8: z_<indicator> of a row is round((value - mean) / std, 4) with mean and std
\* taken over the rows carrying the row's scenario label only (for a cohort
\* whose std is a number above 0).
C8_ZScoreWithinScenario ==
    pc = "z_scored" =>
        \A i \in 1..Len(all_counties_2065_combined) : \A k \in 1..Len(indicators) :
            LET row == all_counties_2065_combined[i]
                cells == CohortCells(all_counties_2065_combined, row["scenario"],
                                     indicators[k])
                present == SelectSeq(cells, NotNaN)
                mean == FDiv(SumOf(present), Num(Len(present)))
                variance == FDiv(SumOf([j \in 1..Len(present) |->
                                            FMul(FSub(present[j], mean),
                                                 FSub(present[j], mean))]),
                                 Num(Len(present) - 1))
            IN  (/\ Len(present) >= 2 /\ AllFinite(present)
                 /\ variance # Num(0) /\ IsFinite(row[indicators[k]]))
                => IsZScoreOf(row["z_" \o indicators[k]],
                              FSub(row[indicators[k]], mean), variance)

\* two scenario cohorts of two counties each with different means, and a row
\* standardized to 0.7071 within its own cohort
C8_Witness ==
    /\ pc = "z_scored"
    /\ \E i, j \in 1..Len(all_counties_2065_combined) :
        LET a == all_counties_2065_combined[i]
            b == all_counties_2065_combined[j]
        IN  /\ a["scenario"] # b["scenario"]
            /\ "z_available_housing_units" \in DOMAIN a
            /\ a["z_available_housing_units"] = Rat(7071, 10000)
            /\ b["z_available_housing_units"] = Rat(7071, 10000)
            /\ a["available_housing_units"] # b["available_housing_units"]

\* C9: in a scenario cohort of any size, a single county included, whose rows all
\* have the same value of an indicator, z_<indicator> is 0 in every row of the
\* cohort, never NaN or infinite.
C9_ZeroForIdenticalValues ==
    pc = "z_scored" =>
        \A i \in 1..Len(all_counties_2065_combined) : \A k \in 1..Len(indicators) :
            LET row == all_counties_2065_combined[i]
                cells == CohortCells(all_counties_2065_combined, row["scenario"],
                                     indicators[k])
            IN  (/\ IsFinite(row[indicators[k]])
                 /\ \A j \in 1..Len(cells) : cells[j] = row[indicators[k]])
                => /\ ("z_" \o indicators[k]) \in DOMAIN row
                   /\ row["z_" \o indicators[k]] = Num(0)

\* C10: the standardized scores combined into the indices are computed within
\* each scenario cohort: mean and standard deviation over the rows of index_df
\* that share the row's scenario.
C10_IndexScoresWithinScenario ==
    pc = "indexed" =>
        \A i \in 1..Len(df_scaled) : \A k \in 1..Len(cols) :
            LET row == df_scaled[i]
                cells == CohortCells(df_scaled, row["scenario"], cols[k])
            IN  row["z_" \o cols[k]]
                    = Standardize(row[cols[k]], Mean(cells), PopulationVariance(cells))

\* the sum (-zu) * wu/100 + (-zs) * ws/100 + zh * wh/100, as its three terms
WeightedSum(zu, zs, zh, wu, ws, wh) ==
    <<[z |-> [sgn |-> -zu.sgn, sq |-> zu.sq], weight |-> wu],
      [z |-> [sgn |-> -zs.sgn, sq |-> zs.sq], weight |-> ws],
      [z |-> zh, weight |-> wh]>>

\* C11: every output row of calculate_indices has index_balanced =
\* -0.33 zu - 0.33 zs + 0.33 zh, index_employment = -0.60 zu - 0.20 zs + 0.20 zh,
\* index_housing = -0.20 zu - 0.20 zs + 0.60 zh and index_education =
\* -0.20 zu - 0.60 zs + 0.20 zh, zu, zs, zh being the row's standardized scores.
C11_IndexFormulas ==
    pc = "indexed" =>
        /\ Len(results_df) = Len(df_scaled)
        /\ \A i \in 1..Len(results_df) :
            LET zu == df_scaled[i]["z_unemployment_rate"]
                zs == df_scaled[i]["z_student_teacher_ratio"]
                zh == df_scaled[i]["z_available_housing_units"]
                out == results_df[i]
            IN  /\ out["county_fips"] = df_scaled[i]["county_fips"]
                /\ out["scenario"] = df_scaled[i]["scenario"]
                /\ out["index_balanced"] = WeightedSum(zu, zs, zh, 33, 33, 33)
                /\ out["index_employment"] = WeightedSum(zu, zs, zh, 60, 20, 20)
                /\ out["index_housing"] = WeightedSum(zu, zs, zh, 20, 20, 60)
                /\ out["index_education"] = WeightedSum(zu, zs, zh, 20, 60, 20)

\* an output row whose three standardized scores are numbers other than 0
C11_Witness ==
    /\ pc = "indexed"
    /\ \E i \in 1..Len(results_df) :
        \A k \in 1..Len(cols) :
            /\ df_scaled[i]["z_" \o cols[k]].sgn # 0
            /\ results_df[i]["index_balanced"][k].z.sgn # 0

\* the (county_fips, scenario) keys of the rows of a frame, in row order
KeysOf(df) == [i \in 1..Len(df) |-> <<df[i]["county_fips"], df[i]["scenario"]>>]

\* a student count that is a number above 0 (or +inf)
PositiveStudents(row) == row["public_school_students"][1] > 0

\* C12: the output of calculate_indices has exactly one row, keyed by
\* (county_fips, scenario), for each row of the combined frame whose
\* public_school_students > 0 and none for any other row; the combined frame
\* passed in is left as it was when it was saved.
C12_OneRowPerSchoolRow ==
    pc = "indexed" =>
        /\ KeysOf(results_df) = KeysOf(SelectSeq(all_counties_2065_combined, PositiveStudents))
        /\ \A i \in 1..Len(results_df) : DOMAIN results_df[i] = result_columns
        /\ all_counties_2065_combined = csv_combined.rows

\* a run whose combined frame has rows with students, rows with a student count
\* of 0 and rows without school data
C12_Witness ==
    /\ pc = "indexed"
    /\ results_df # <<>>
    /\ \E i, j \in 1..Len(all_counties_2065_combined) :
        /\ IsNaN(all_counties_2065_combined[i]["public_school_students"])
        /\ all_counties_2065_combined[j]["public_school_students"] = Num(0)

(***************************************************************************)
(* calculate_z_scores on its own: frames of up to MaxCohortRows rows in    *)
(* two scenarios, with an unemployment rate drawn from a few values, the   *)
(* same housing value in every row and no student-teacher ratio.           *)
(***************************************************************************)
MaxCohortRows == 4

RateValues == {NaN, Num(0), Num(1), Rat(5, 2)}

ScoredRow(scenario, rate) ==
    [scenario |-> scenario, county_fips |-> StrZFill(1001, FipsWidth),
     student_teacher_ratio |-> NaN, available_housing_units |-> Num(7),
     unemployment_rate |-> rate]

ScoredRows == {ScoredRow(scenario, rate) : scenario \in {"original", "s3"}, rate \in RateValues}

InitZScores ==
    /\ all_counties_2065_combined \in SeqsUpTo(ScoredRows, MaxCohortRows)
    /\ merged_df = <<>>
    /\ pop_project = <<>>
    /\ filtered_df = <<>>
    /\ pop_combined = <<>>
    /\ df_scaled = <<>>
    /\ results_df = <<>>
    /\ csv_combined = PreviousRun
    /\ csv_indices = PreviousRun
    /\ csv_inputs = NotRead
    /\ pipeline = NotRun
    /\ downloader = NotConstructed
    /\ database = NotConnected
    /\ pc = "z_call"

ZScoresCall ==
    /\ pc = "z_call"
    /\ all_counties_2065_combined' = CalculateZScores(all_counties_2065_combined)
    /\ pc' = "z_return"
    /\ UNCHANGED <<database, pipeline, downloader, csv_inputs, merged_df, pop_project, filtered_df, pop_combined,
                   df_scaled, results_df, csv_combined, csv_indices>>

NextZScores == ZScoresCall

SpecZScores == InitZScores /\ [][NextZScores]_vars

\* the scenario labels of a frame
ScenariosOf(df) == {df[i]["scenario"] : i \in 1..Len(df)}

\* C13: in a scenario cohort whose standard deviation of an indicator is above 0,
\* the mean of z_<indicator> over the rows of the cohort is 0 up to the rounding
\* of each score to 4 decimals: |mean| <= 0.00005.
C13_CohortMeanIsZero ==
    pc \in {"z_scored", "z_return"} =>
        \A scenario \in ScenariosOf(all_counties_2065_combined) :
        \A k \in 1..Len(indicators) :
            LET cells == CohortCells(all_counties_2065_combined, scenario, indicators[k])
            IN  FGt(SampleVariance(cells), Num(0)) =>
                    LET scores == CohortCells(all_counties_2065_combined, scenario,
                                              "z_" \o indicators[k])
                        present == SelectSeq(scores, NotNaN)
                        total == SumOf(present)
                    IN  /\ Len(present) = Len(SelectSeq(cells, NotNaN))
                        /\ IsFinite(total)
                        /\ 2 * Pow10(ZDecimals) * Abs(total[1]) <= Len(present) * total[2]

\* a cohort of three or more rates whose rounded scores do not add up to 0
C13_Witness ==
    /\ pc = "z_return"
    /\ \E scenario \in ScenariosOf(all_counties_2065_combined) :
        LET cells == CohortCells(all_counties_2065_combined, scenario, "unemployment_rate")
        IN  /\ FGt(SampleVariance(cells), Num(0))
            /\ Len(SelectSeq(cells, NotNaN)) >= 3
            /\ SumOf(SelectSeq(CohortCells(all_counties_2065_combined, scenario,
                                           "z_unemployment_rate"), NotNaN)) # Num(0)

(***************************************************************************)
(* load_and_merge_data: the five tables read from the CSV files, the four  *)
(* merges, the removal of the z_score columns and the zeroing of the       *)
(* school columns.  csv_inputs holds the rows of the five tables.          *)
(***************************************************************************)
\* rows of one input table
MaxTableRows == 2

key_columns == <<"county_fips", "state", "county", "name", "population", "year">>

KeyOf(row) == [k \in 1..Len(key_columns) |-> row[key_columns[k]]]

\* the value columns of the five tables
economic_columns == {"total_labor_force", "total_employed_population", "unemployment_z_score"}
education_columns == {"elementary_school_population"}
housing_columns == {"total_housing_units", "occupied_housing_units"}
job_openings_columns == {"job_opening_jan"}
public_school_columns ==
    {"public_school_students", "public_school_teachers", "student_teacher_ratio",
     "Z_Score_students"}

\* a left row and a right row with the same key, as one row
Joined(left_row, right_row) == WithCols(left_row, right_row)

\* a row without a partner: the columns of the other table are null
Unmatched(row, other_columns) == WithCols([c \in other_columns |-> NaN], row)

\* the rows of a frame with a given key, in frame order
WithKey(df, key) ==
    LET Same(row) == KeyOf(row) = key
    IN  SelectSeq(df, Same)

\* one left row joined with every right row of its key
JoinedWithAll(left_row, partners) ==
    [i \in 1..Len(partners) |-> Joined(left_row, partners[i])]

\* left.merge(right, on = key_columns, how = 'inner'): left order is kept
RECURSIVE InnerMerge(_, _)
InnerMerge(left, right) ==
    IF left = <<>> THEN <<>>
    ELSE JoinedWithAll(Head(left), WithKey(right, KeyOf(Head(left))))
            \o InnerMerge(Tail(left), right)

\* the order of two keys; the name of a county follows from its county_fips
KeyLess(a, b) ==
    LET x == <<Num(a[1]), Num(a[2]), Num(a[3]), a[5], Num(a[6])>>
        y == <<Num(b[1]), Num(b[2]), Num(b[3]), b[5], Num(b[6])>>
    IN  \E k \in 1..Len(x) :
            /\ FGt(y[k], x[k])
            /\ \A j \in 1..(k - 1) : x[j] = y[j]

RECURSIVE SortedKeys(_)
SortedKeys(keys) ==
    IF keys = {} THEN <<>>
    ELSE LET least == CHOOSE k \in keys : \A other \in keys : ~KeyLess(other, k)
         IN  <<least>> \o SortedKeys(keys \ {least})

\* the rows of an outer merge for one key
OuterRows(left, left_columns, right, right_columns, key) ==
    LET mine == WithKey(left, key)
        theirs == WithKey(right, key)
    IN  IF theirs = <<>>
        THEN [i \in 1..Len(mine) |-> Unmatched(mine[i], right_columns)]
        ELSE IF mine = <<>>
        THEN [i \in 1..Len(theirs) |-> Unmatched(theirs[i], left_columns)]
        ELSE InnerMerge(mine, theirs)

RECURSIVE OuterLoop(_, _, _, _, _)
OuterLoop(left, left_columns, right, right_columns, keys) ==
    IF keys = <<>> THEN <<>>
    ELSE OuterRows(left, left_columns, right, right_columns, Head(keys))
            \o OuterLoop(left, left_columns, right, right_columns, Tail(keys))

\* an inner merge in place of the outer one
InnerOfBoth(left, left_columns, right, right_columns) == InnerMerge(left, right)

\* left.merge(right, on = key_columns, how = 'outer'): the keys of both sides,
\* sorted
OuterMerge(left, left_columns, right, right_columns) ==
    OuterLoop(left, left_columns, right, right_columns,
              SortedKeys({KeyOf(left[i]) : i \in 1..Len(left)}
                         \cup {KeyOf(right[i]) : i \in 1..Len(right)}))

\* str.lower() of one character
Lower(ch) ==
    LET upper == "ABCDEFGHIJKLMNOPQRSTUVWXYZ"
        lower == "abcdefghijklmnopqrstuvwxyz"
    IN  IF \E i \in 1..Len(upper) : SubSeq(upper, i, i) = ch
        THEN LET i == CHOOSE i \in 1..Len(upper) : SubSeq(upper, i, i) = ch
             IN  SubSeq(lower, i, i)
        ELSE ch

\* str.lower() of a string
RECURSIVE LowerCase(_)
LowerCase(name) ==
    IF Len(name) = 0 THEN name
    ELSE Lower(SubSeq(name, 1, 1)) \o LowerCase(SubSeq(name, 2, Len(name)))

\* columns.str.contains(pattern, case = False) for one column name
ContainsIgnoringCase(name, pattern) ==
    LET lowered == LowerCase(name)
        wanted == LowerCase(pattern)
    IN  \E start \in 1..(Len(name) - Len(pattern) + 1) :
            SubSeq(lowered, start, start + Len(pattern) - 1) = wanted

\* the columns of the frame the four merges return
merged_columns ==
    {key_columns[k] : k \in 1..Len(key_columns)}
        \cup economic_columns \cup education_columns \cup housing_columns
        \cup job_openings_columns \cup public_school_columns

\* the columns kept by a search that tells upper case from lower case
kept_columns_case_sensitive ==
    {c \in merged_columns :
        ~\E start \in 1..(Len(c) - 6) : SubSeq(c, start, start + 6) = "z_score"}

\* ~merged_df.columns.str.contains('z_score', case=False)
kept_columns == {c \in merged_columns : ~ContainsIgnoringCase(c, "z_score")}

\* merged_df.loc[:, kept_columns]
DropZScoreColumns(df) == [i \in 1..Len(df) |-> Project(df[i], kept_columns)]

school_columns == {"public_school_students", "public_school_teachers", "student_teacher_ratio"}

\* merged_df.loc[merged_df["year"] != 2023, [the school columns]] = 0
ZeroSchoolData(row) ==
    IF row["year"] # BASE_YEAR THEN WithCols(row, [c \in school_columns |-> Num(0)])
    ELSE row

LoadAndMergeData(tables) ==
    LET inner == InnerMerge(InnerMerge(InnerMerge(tables.economic, tables.education),
                                       tables.housing),
                            tables.job_openings)
        merged == OuterMerge(inner,
                             economic_columns \cup education_columns
                                \cup housing_columns \cup job_openings_columns,
                             tables.public_school, public_school_columns)
        kept == DropZScoreColumns(merged)
    IN  [i \in 1..Len(kept) |-> ZeroSchoolData(kept[i])]

\* the keys of the tables: a county in 2023 under two population counts, and
\* the same county a year earlier
TableKeys ==
    {<<1001, Num(10), BASE_YEAR>>, <<1001, Num(9), BASE_YEAR>>,
     <<1001, Num(8), BASE_YEAR - 1>>}

KeyRow(key) ==
    [county_fips |-> key[1], state |-> key[1] \div 1000, county |-> key[1] % 1000,
     name |-> <<"county", key[1]>>, population |-> key[2], year |-> key[3]]

\* a row of a table: its key and one value in each value column
TableRow(key, columns, value) == WithCols([c \in columns |-> value], KeyRow(key))

\* the tables of at most MaxTableRows rows over the keys, with distinct keys
TablesOf(columns, value) ==
    LET chosen == {S \in SUBSET TableKeys : Cardinality(S) <= MaxTableRows}
        Rows(S) == LET sorted == SortedKeys({KeyOf(KeyRow(k)) : k \in S})
                       Key(i) == <<sorted[i][1], sorted[i][5], sorted[i][6]>>
                   IN  [i \in 1..Len(sorted) |-> TableRow(Key(i), columns, value)]
    IN  {Rows(S) : S \in chosen}

InitMerge ==
    /\ pipeline = NotRun
    /\ downloader = NotConstructed
    /\ database = NotConnected
    /\ csv_inputs \in [economic : TablesOf(economic_columns, Num(6)),
                       education : TablesOf(education_columns, Num(3)),
                       housing : TablesOf(housing_columns, Num(15)),
                       job_openings : TablesOf(job_openings_columns, Num(2)),
                       public_school : TablesOf(public_school_columns, Num(30))]
    /\ merged_df = <<>>
    /\ pop_project = <<>>
    /\ filtered_df = <<>>
    /\ pop_combined = <<>>
    /\ all_counties_2065_combined = <<>>
    /\ df_scaled = <<>>
    /\ results_df = <<>>
    /\ csv_combined = PreviousRun
    /\ csv_indices = PreviousRun
    /\ pc = "merge_call"

LoadAndMerge ==
    /\ pc = "merge_call"
    /\ merged_df' = LoadAndMergeData(csv_inputs)
    /\ pc' = "merge_return"
    /\ UNCHANGED <<database, pipeline, downloader, csv_inputs, pop_project, filtered_df, pop_combined,
                   all_counties_2065_combined, df_scaled, results_df,
                   csv_combined, csv_indices>>

NextMerge == LoadAndMerge

SpecMerge == InitMerge /\ [][NextMerge]_vars

\* the keys of the rows of a frame
KeysIn(df) == {KeyOf(df[i]) : i \in 1..Len(df)}

\* the keys that occur in each of the four inner-joined tables
InnerKeys ==
    KeysIn(csv_inputs.economic) \cap KeysIn(csv_inputs.education)
        \cap KeysIn(csv_inputs.housing) \cap KeysIn(csv_inputs.job_openings)

\* C14: the merged frame has a row for a key exactly when the key occurs in all
\* four of the economic, education, housing and job-openings tables or occurs
\* in the public-school table; rows of keys found in the school table only have
\* nulls in the columns of the other tables.
C14_MergedKeys ==
    pc = "merge_return" =>
        /\ KeysIn(merged_df) = InnerKeys \cup KeysIn(csv_inputs.public_school)
        /\ \A i \in 1..Len(merged_df) :
            KeyOf(merged_df[i]) \notin InnerKeys =>
                \A c \in {"total_labor_force", "total_employed_population",
                          "elementary_school_population", "total_housing_units",
                          "occupied_housing_units", "job_opening_jan"} :
                    IsNaN(merged_df[i][c])

\* a merge with a key of the school table only, a key of the four other tables
\* only, and a key of the economic table that was dropped
C14_Witness ==
    /\ pc = "merge_return"
    /\ KeysIn(csv_inputs.public_school) \ InnerKeys # {}
    /\ InnerKeys \ KeysIn(csv_inputs.public_school) # {}
    /\ KeysIn(csv_inputs.economic) \ KeysIn(merged_df) # {}

\* the rows of the school table with the key of a row
SchoolRowsOf(row) == WithKey(csv_inputs.public_school, KeyOf(row))

\* C15: in the frame load_and_merge_data returns no column name contains
\* 'z_score' in any letter case, every row of a year other than 2023 has 0 in
\* public_school_students, public_school_teachers and student_teacher_ratio, and
\* the rows of 2023 keep the school values of the join.
C15_NoZScoreAndSchoolZeroed ==
    pc = "merge_return" =>
        \A i \in 1..Len(merged_df) :
            LET row == merged_df[i]
            IN  /\ \A c \in DOMAIN row :
                    /\ ~ContainsIgnoringCase(c, "z_score")
                    /\ c \notin {"unemployment_z_score", "Z_Score_students"}
                /\ school_columns \subseteq DOMAIN row
                /\ row["year"] # 2023 => \A c \in school_columns : row[c] = Num(0)
                /\ row["year"] = 2023 =>
                    \A c \in school_columns :
                        IF SchoolRowsOf(row) = <<>> THEN IsNaN(row[c])
                        ELSE \E j \in 1..Len(SchoolRowsOf(row)) :
                                row[c] = SchoolRowsOf(row)[j][c]

\* a merged frame with a row of 2022 whose school values were set to 0 and a row
\* of 2023 that kept them
C15_Witness ==
    /\ pc = "merge_return"
    /\ \E i, j \in 1..Len(merged_df) :
        /\ merged_df[i]["year"] = 2022
        /\ SchoolRowsOf(merged_df[i]) # <<>>
        /\ SchoolRowsOf(merged_df[i])[1]["public_school_students"] = Num(30)
        /\ merged_df[i]["public_school_students"] = Num(0)
        /\ merged_df[j]["year"] = 2023
        /\ merged_df[j]["public_school_students"] = Num(30)

(***************************************************************************)
(* main() run again on the same input files: the frames of the finished or *)
(* aborted run are gone, the input tables and the two output files stay.   *)
(***************************************************************************)
Rerun ==
    /\ pc \in {"done", "aborted"}
    /\ filtered_df' = <<>>
    /\ pop_combined' = <<>>
    /\ all_counties_2065_combined' = <<>>
    /\ df_scaled' = <<>>
    /\ results_df' = <<>>
    /\ pc' = "start"
    /\ UNCHANGED <<database, pipeline, downloader, csv_inputs, merged_df, pop_project, csv_combined, csv_indices>>

NextTwice ==
    \/ Prepare
    \/ ProcessPopulation
    \/ GenerateProjections
    \/ DerivedMetrics
    \/ DerivedMetricsRaises
    \/ ZScores
    \/ SaveCombined
    \/ Indices
    \/ IndicesRaises
    \/ SaveIndices
    \/ Rerun

SpecTwice == Init /\ [][NextTwice]_vars

InputRowsOf(df, fips) ==
    LET Own(row) == row["county_fips"] = fips
    IN  SelectSeq(df, Own)

\* the projected and derived rows main computes from the rows of one county alone
ComputedAlone(fips) ==
    LET merged == InputRowsOf(merged_df, fips)
    IN  CalculateDerivedMetrics(
            GenerateCountyProjections(PrepareFilteredData(merged),
                                      ProcessPopulationData(InputRowsOf(pop_project, fips))),
            merged)

\* C17: the projected values and the derived metrics of the rows of a county
\* depend on the input rows of that county only: they are what the same steps
\* compute when the rows of every other county are removed from the merged
\* frame and the population table.
C17_CountyIndependence ==
    pc = "derived" =>
        \A fips \in Fips :
            LET Own(row) == row["county_fips"] = StrZFill(fips, FipsWidth)
            IN  SelectSeq(all_counties_2065_combined, Own) = ComputedAlone(fips)

\* two projected counties with different population changes
C17_Witness ==
    /\ pc = "derived"
    /\ \E i, j \in 1..Len(all_counties_2065_combined) :
        LET a == all_counties_2065_combined[i]
            b == all_counties_2065_combined[j]
        IN  /\ a["county_fips"] # b["county_fips"]
            /\ a["scenario"] = "s3" /\ b["scenario"] = "s3"
            /\ IsFinite(a["population"]) /\ IsFinite(b["population"])
            /\ \E m, n \in 1..Len(pop_combined) :
                /\ pop_combined[m]["county_fips"] = a["county_fips"]
                /\ pop_combined[n]["county_fips"] = b["county_fips"]
                /\ pop_combined[m]["s3_percentage_change"]
                    # pop_combined[n]["s3_percentage_change"]
                /\ IsFinite(a["unemployment_rate"]) /\ IsFinite(b["unemployment_rate"])

(***************************************************************************)
(* run_data_pipeline: the scripts are run one after the other as child     *)
(* processes.  pipeline holds                                              *)
(*   script        the position of the for loop in scripts                 *)
(*   lines         the lines of the running child relayed so far           *)
(*   return_code   what process.wait() returned for the last child         *)
(*   started       the modules handed to Popen, in order                   *)
(*   return_codes  the return codes of the children that exited, in order  *)
(*   message       the last line the script itself printed at the end      *)
(*   exit_status   <<>> while the script runs, then its exit status        *)
(***************************************************************************)
MaxLines == 2

scripts ==
    << "preprocessing.acquisition.download_counties",
       "preprocessing.acquisition.download_raw_data",
       "preprocessing.cleaning.convert_xlsx_to_csvs",
       "preprocessing.analysis.historical_population",
       "preprocessing.analysis.population_forecasting",
       "preprocessing.cleaning.clean_data",
       "preprocessing.analysis.indicator_forecasting",
       "preprocessing.database.update_database" >>

\* what a child process can return: success, an error status, the status of
\* an unhandled exception, death by a signal
ReturnCodes == {0, 1, 2, -9}

\* if return_code: taken for a positive status only
FailedPositive(return_code) == return_code > 0

\* if return_code:
Failed(return_code) == return_code # 0

InitPipeline ==
    /\ pipeline = [pc |-> "loop", script |-> 1, lines |-> 0, return_code |-> 0,
                   started |-> <<>>, return_codes |-> <<>>,
                   message |-> "", exit_status |-> <<>>]
    /\ downloader = NotConstructed
    /\ database = NotConnected
    /\ csv_inputs = NotRead
    /\ merged_df = <<>>
    /\ pop_project = <<>>
    /\ filtered_df = <<>>
    /\ pop_combined = <<>>
    /\ all_counties_2065_combined = <<>>
    /\ df_scaled = <<>>
    /\ results_df = <<>>
    /\ csv_combined = PreviousRun
    /\ csv_indices = PreviousRun
    /\ pc = "not_run"

\* everything but pipeline
forecast_vars ==
    <<database, downloader, csv_inputs, merged_df, pop_project, filtered_df, pop_combined,
      all_counties_2065_combined, df_scaled, results_df, csv_combined, csv_indices, pc>>

\* run_script up to Popen: the next module of the list is started
RunScript ==
    /\ pipeline.pc = "loop"
    /\ pipeline.script <= Len(scripts)
    /\ pipeline' = [pipeline EXCEPT !.pc = "reading", !.lines = 0,
                        !.started = Append(@, scripts[pipeline.script])]
    /\ UNCHANGED forecast_vars

\* one line of the child is read and printed
RelayLine ==
    /\ pipeline.pc = "reading"
    /\ pipeline.lines < MaxLines
    /\ pipeline' = [pipeline EXCEPT !.lines = @ + 1]
    /\ UNCHANGED forecast_vars

\* readline returns "" and process.wait() returns the status of the child
ChildExits ==
    /\ pipeline.pc = "reading"
    /\ \E return_code \in ReturnCodes :
        pipeline' = [pipeline EXCEPT !.pc = "waited", !.return_code = return_code,
                         !.return_codes = Append(@, return_code)]
    /\ UNCHANGED forecast_vars

\* the end of run_script: CalledProcessError or the next turn of the loop
CheckReturnCode ==
    /\ pipeline.pc = "waited"
    /\ pipeline' = IF Failed(pipeline.return_code)
                   THEN [pipeline EXCEPT !.pc = "raised"]
                   ELSE [pipeline EXCEPT !.pc = "loop", !.script = @ + 1]
    /\ UNCHANGED forecast_vars

\* the loop is over: the success message, the interpreter exits with 0
PipelineSucceeded ==
    /\ pipeline.pc = "loop"
    /\ pipeline.script > Len(scripts)
    /\ pipeline' = [pipeline EXCEPT !.pc = "exited", !.exit_status = <<0>>,
                        !.message = "PostgreSQL updated successfully!"]
    /\ UNCHANGED forecast_vars

\* except CalledProcessError: the failure message and sys.exit(1)
PipelineFailed ==
    /\ pipeline.pc = "raised"
    /\ pipeline' = [pipeline EXCEPT !.pc = "exited", !.exit_status = <<1>>,
                        !.message = "Pipeline failed at script: "
                                        \o scripts[pipeline.script]]
    /\ UNCHANGED forecast_vars

NextPipeline ==
    \/ RunScript
    \/ RelayLine
    \/ ChildExits
    \/ CheckReturnCode
    \/ PipelineSucceeded
    \/ PipelineFailed

SpecPipeline == InitPipeline /\ [][NextPipeline]_vars

\* C18: the scripts are started in list order, each only after the one before
\* it exited with status 0; after a script exited non-zero no later script
\* is started (the database update does not run after a failure of
\* indicator_forecasting) and the process exits with status 1.
C18_InOrderStopAtFailure ==
    LET started == pipeline.started
        return_codes == pipeline.return_codes
        failures == {i \in 1..Len(return_codes) : return_codes[i] # 0}
    IN  /\ Len(started) <= Len(scripts)
        /\ started = SubSeq(scripts, 1, Len(started))
        /\ Len(return_codes) \in {Len(started) - 1, Len(started)}
        /\ \A i \in 1..(Len(started) - 1) : return_codes[i] = 0
        /\ \A i \in failures : Len(started) = i
        /\ (7 \in failures) =>
               \A i \in 1..Len(started) :
                   started[i] # "preprocessing.database.update_database"
        /\ pipeline.pc = "exited" =>
               /\ failures # {} => pipeline.exit_status = <<1>>
               /\ failures = {} => /\ pipeline.exit_status = <<0>>
                                   /\ started = scripts

\* indicator_forecasting exited with status 1 after six scripts succeeded
C18_Witness ==
    /\ pipeline.pc = "exited"
    /\ Len(pipeline.started) = 7
    /\ pipeline.return_codes[7] = 1
    /\ pipeline.exit_status = <<1>>
    /\ pipeline.message = "Pipeline failed at script: preprocessing.analysis.indicator_forecasting"

(***************************************************************************)
(* DataDownloader.download_all_data: a pool of max_workers threads runs    *)
(* _download_dataset once per dataset; every dataset opens a pool of its   *)
(* own for its per-year downloads (Census) or its per-geography fetches    *)
(* (Data Commons).  A pool hands out its tasks in the order they were      *)
(* submitted and runs at most max_workers of them at a time.  downloader   *)
(* holds                                                                   *)
(*   cpu_count       what os.cpu_count() returned, 0 for None              *)
(*   existing_files  the datasets whose files are all on disk already      *)
(*   futures         the state of the _download_dataset task per dataset   *)
(*   tasks           per dataset, the state of the tasks of its pool       *)
(*   executions      per dataset, how often each task has been started     *)
(***************************************************************************)
MaxYears == 3
MaxStates == 1
MaxCounties == 3

\* os.cpu_count(): None or the number of cores
CpuCounts == {0, 1}

\* the first two Census datasets and the two Data Commons datasets of
\* _get_dataset_configs, in the order of the dictionary
datasets == <<"HOUSING", "POPULATION", "CRIME", "FEMA_NRI">>

DatasetNames == {datasets[i] : i \in 1..Len(datasets)}

\* dataset_config.get("DATA_SOURCE")
DataSource(dataset) ==
    IF dataset \in {"CRIME", "FEMA_NRI"} THEN "datacommons" ELSE "census"

\* dataset_config.get("LEVEL", "state")
Level(dataset) == IF dataset = "FEMA_NRI" THEN "county" ELSE "state"

Min(a, b) == IF a <= b THEN a ELSE b

\* os.cpu_count() or 1
Cores(cpu_count) == IF cpu_count = 0 THEN 1 ELSE cpu_count

max_workers(cpu_count) == Min(32, Cores(cpu_count) + 4)

max_county_workers(cpu_count) == Min(50, Cores(cpu_count) * 2)

\* the number of tasks a dataset submits to its pool: one per year, per
\* state or per county
Submitted(dataset) ==
    IF DataSource(dataset) = "census" THEN MaxYears
    ELSE IF Level(dataset) = "state" THEN MaxStates
    ELSE MaxCounties

\* the max_workers of the pool a dataset opens
PoolSize(dataset, cpu_count) ==
    IF DataSource(dataset) = "datacommons" /\ Level(dataset) = "county"
    THEN max_county_workers(cpu_count)
    ELSE max_workers(cpu_count)

\* the disk before the run: nothing there, or every file of one dataset
ExistingFiles == {{}, {"POPULATION"}, {"FEMA_NRI"}}

InitDownload ==
    /\ downloader \in
        [pc : {"constructed"},
         cpu_count : CpuCounts,
         existing_files : ExistingFiles,
         futures : {[d \in DatasetNames |-> "not_submitted"]},
         tasks : {[d \in DatasetNames |-> <<>>]},
         executions : {[d \in DatasetNames |-> <<>>]}]
    /\ database = NotConnected
    /\ pipeline = NotRun
    /\ csv_inputs = NotRead
    /\ merged_df = <<>>
    /\ pop_project = <<>>
    /\ filtered_df = <<>>
    /\ pop_combined = <<>>
    /\ all_counties_2065_combined = <<>>
    /\ df_scaled = <<>>
    /\ results_df = <<>>
    /\ csv_combined = PreviousRun
    /\ csv_indices = PreviousRun
    /\ pc = "not_run"

\* everything but downloader
other_vars ==
    <<database, pipeline, csv_inputs, merged_df, pop_project, filtered_df, pop_combined,
      all_counties_2065_combined, df_scaled, results_df, csv_combined, csv_indices, pc>>

\* the tasks of a pool that a worker thread is executing
Running(tasks) == {i \in 1..Len(tasks) : tasks[i] = "running"}

\* the tasks of a pool still in its queue
Queued(tasks) == {i \in 1..Len(tasks) : tasks[i] = "pending"}

\* a pool gives its next task to a worker: the first one queued, when fewer
\* than max_workers are running
NextTask(tasks, size) ==
    IF Queued(tasks) = {} \/ Cardinality(Running(tasks)) >= size THEN {}
    ELSE {CHOOSE i \in Queued(tasks) : \A j \in Queued(tasks) : i <= j}

\* download_all_data submits one _download_dataset per dataset
SubmitDatasets ==
    /\ downloader.pc = "constructed"
    /\ downloader' = [downloader EXCEPT !.pc = "waiting",
                          !.futures = [d \in DatasetNames |-> "pending"]]
    /\ UNCHANGED other_vars

\* the position of a dataset in the dictionary
Position(dataset) == CHOOSE i \in 1..Len(datasets) : datasets[i] = dataset

\* the outer pool as a pool of tasks in dictionary order
DatasetTasks == [i \in 1..Len(datasets) |-> downloader.futures[datasets[i]]]

\* _download_dataset starts: a Data Commons dataset with all its files on
\* disk returns at once, any other dataset submits its tasks to a new pool
StartDataset(dataset) ==
    /\ downloader.pc = "waiting"
    /\ Position(dataset) \in NextTask(DatasetTasks, max_workers(downloader.cpu_count))
    /\ downloader' =
        IF DataSource(dataset) = "datacommons" /\ dataset \in downloader.existing_files
        THEN [downloader EXCEPT !.futures[dataset] = "finished"]
        ELSE [downloader EXCEPT !.futures[dataset] = "running",
                  !.tasks[dataset] = [i \in 1..Submitted(dataset) |-> "pending"],
                  !.executions[dataset] = [i \in 1..Submitted(dataset) |-> 0]]
    /\ UNCHANGED other_vars

\* a worker of the pool of a dataset takes the next task; a per-year
\* download whose file exists returns at once
StartTask(dataset) ==
    /\ downloader.futures[dataset] = "running"
    /\ \E i \in NextTask(downloader.tasks[dataset],
                         PoolSize(dataset, downloader.cpu_count)) :
        downloader' = [downloader EXCEPT
            !.tasks[dataset][i] = IF dataset \in downloader.existing_files
                                  THEN "skipped" ELSE "running",
            !.executions[dataset][i] = @ + 1]
    /\ UNCHANGED other_vars

\* the download or the fetch of a task succeeds
Success(dataset, i) ==
    [downloader EXCEPT !.tasks[dataset][i] =
        IF DataSource(dataset) = "census" THEN "saved" ELSE "fetched"]

TaskSucceeds(dataset) ==
    /\ \E i \in Running(downloader.tasks[dataset]) :
        downloader' = Success(dataset, i)
    /\ UNCHANGED other_vars

\* a task whose exception puts it back into the queue of its pool
FailureRequeued(dataset, i) ==
    [downloader EXCEPT !.tasks[dataset][i] = "pending"]

\* except Exception in the task: the message is printed and the task returns
Failure(dataset, i) ==
    [downloader EXCEPT !.tasks[dataset][i] = "failed"]

TaskFails(dataset) ==
    /\ \E i \in Running(downloader.tasks[dataset]) :
        downloader' = Failure(dataset, i)
    /\ UNCHANGED other_vars

\* the states in which a task has returned
Returned == {"saved", "fetched", "skipped", "failed"}

\* wait(futures) or the as_completed loop is over and the pool is shut down
FinishDataset(dataset) ==
    /\ downloader.futures[dataset] = "running"
    /\ \A i \in 1..Len(downloader.tasks[dataset]) :
        downloader.tasks[dataset][i] \in Returned
    /\ downloader' = [downloader EXCEPT !.futures[dataset] = "finished"]
    /\ UNCHANGED other_vars

\* wait(futures) of download_all_data is over: download_all_data returns
DownloadCompleted ==
    /\ downloader.pc = "waiting"
    /\ \A d \in DatasetNames : downloader.futures[d] = "finished"
    /\ downloader' = [downloader EXCEPT !.pc = "completed"]
    /\ UNCHANGED other_vars

NextDownload ==
    \/ SubmitDatasets
    \/ \E dataset \in DatasetNames : StartDataset(dataset)
    \/ \E dataset \in DatasetNames : StartTask(dataset)
    \/ \E dataset \in DatasetNames : TaskSucceeds(dataset)
    \/ \E dataset \in DatasetNames : TaskFails(dataset)
    \/ \E dataset \in DatasetNames : FinishDataset(dataset)
    \/ DownloadCompleted

SpecDownload == InitDownload /\ [][NextDownload]_vars

\* C19: an exception in a per-year download or a per-geography fetch is
\* caught in the task: no task is started more than once, the tasks that
\* failed stay failed, the pool of a dataset is closed only when every task
\* submitted to it has run and returned, download_all_data returns only when
\* every dataset has returned, and until then a step is always possible.
C19_FailuresAreIsolated ==
    /\ \A d \in DatasetNames :
        /\ \A i \in 1..Len(downloader.executions[d]) :
            /\ downloader.executions[d][i] <= 1
            /\ downloader.executions[d][i] = 0 <=> downloader.tasks[d][i] = "pending"
        /\ (downloader.futures[d] = "finished" /\ downloader.tasks[d] # <<>>) =>
            /\ Len(downloader.tasks[d]) = Submitted(d)
            /\ \A i \in 1..Submitted(d) :
                /\ downloader.tasks[d][i] \in Returned
                /\ downloader.executions[d][i] = 1
    /\ downloader.pc = "completed" =>
        \A d \in DatasetNames : downloader.futures[d] = "finished"
    /\ downloader.pc # "completed" => ENABLED NextDownload

\* download_all_data has returned; in a Census dataset and in the county
\* fetches a task failed and its siblings saved their data
C19_Witness ==
    /\ downloader.pc = "completed"
    /\ downloader.tasks["HOUSING"] = <<"saved", "failed", "saved">>
    /\ downloader.tasks["FEMA_NRI"] = <<"failed", "fetched", "fetched">>
    /\ downloader.tasks["CRIME"] = <<"failed">>

\* the per-year downloads being executed, over all datasets
YearTasksRunning ==
    {<<d, i>> \in DatasetNames \X (1..MaxYears) :
        /\ DataSource(d) = "census"
        /\ i \in Running(downloader.tasks[d])}

\* the per-county fetches being executed
CountyTasksRunning ==
    {<<d, i>> \in DatasetNames \X (1..MaxCounties) :
        /\ DataSource(d) = "datacommons" /\ Level(d) = "county"
        /\ i \in Running(downloader.tasks[d])}

\* C20: at every moment of download_all_data at most min(32, cores + 4)
\* per-dataset tasks and at most min(32, cores + 4) per-year downloads are
\* being executed, and at most min(50, cores * 2) per-county fetches.
C20_ConcurrencyCaps ==
    /\ Cardinality(Running(DatasetTasks)) <= max_workers(downloader.cpu_count)
    /\ Cardinality(YearTasksRunning) <= max_workers(downloader.cpu_count)
    /\ Cardinality(CountyTasksRunning) <= max_county_workers(downloader.cpu_count)

(***************************************************************************)
(* The CSV upload of a directory, by upload_csvs_to_postgres (the script   *)
(* preprocessing/database/update_database.py) or by                        *)
(* PipelineDatabase.bulk_upload_directory.  Every file goes to the table   *)
(* of its name with if_exists="replace": the table is dropped and created, *)
(* then the rows are inserted chunk by chunk.  database holds              *)
(*   program    which of the two functions runs                            *)
(*   to_sql     what DataFrame.to_sql does on a connection without a       *)
(*              transaction: "transaction" when it opens one for all its   *)
(*              statements, "autocommit_ddl" when only the inserts are in  *)
(*              a transaction                                              *)
(*   tables     the content of the table of each file as the connection    *)
(*              sees it, committed as a rollback restores it               *)
(*   file       the position of the loop, chunk the chunks inserted        *)
(*   before     the tables when the upload of the current file started     *)
(*   outcomes   what happened to the files so far                          *)
(***************************************************************************)
MaxFiles == 2
MaxChunks == 2

\* the state of the forecasting script while another program runs
ForecastNotRun ==
    /\ csv_inputs = NotRead
    /\ merged_df = <<>>
    /\ pop_project = <<>>
    /\ filtered_df = <<>>
    /\ pop_combined = <<>>
    /\ all_counties_2065_combined = <<>>
    /\ df_scaled = <<>>
    /\ results_df = <<>>
    /\ csv_combined = PreviousRun
    /\ csv_indices = PreviousRun
    /\ pc = "not_run"

\* everything but database
undatabase_vars ==
    <<pipeline, downloader, csv_inputs, merged_df, pop_project, filtered_df, pop_combined,
      all_counties_2065_combined, df_scaled, results_df, csv_combined, csv_indices, pc>>

\* a table that does not exist, and the table an earlier run uploaded
NoTable == [exists |-> FALSE, rows |-> <<>>]

OldTable == [exists |-> TRUE, rows |-> << <<0, 1>> >>]

\* the table of a file right after DROP TABLE and CREATE TABLE
EmptyTable == [exists |-> TRUE, rows |-> <<>>]

\* the table of a file after all its chunks were inserted
FullTable(file) == [exists |-> TRUE, rows |-> [k \in 1..MaxChunks |-> <<file, k>>]]

InitUpload ==
    /\ \E program \in {"upload_csvs_to_postgres", "bulk_upload_directory"},
          to_sql \in {"transaction", "autocommit_ddl"},
          tables \in [1..MaxFiles -> {NoTable, OldTable}] :
        database = [pc |-> "loop", program |-> program, to_sql |-> to_sql,
                    tables |-> tables, committed |-> tables, before |-> tables,
                    in_transaction |-> FALSE, file |-> 1, chunk |-> 0,
                    outcomes |-> <<>>]
    /\ pipeline = NotRun
    /\ downloader = NotConstructed
    /\ ForecastNotRun

\* pd.read_csv succeeded; the script opens its transaction with db_con.begin(),
\* the client calls to_sql on the bare connection
ReadCsv ==
    /\ database.pc = "loop"
    /\ database.file <= MaxFiles
    /\ database' = [database EXCEPT !.pc = "to_sql", !.chunk = 0,
                        !.before = database.tables,
                        !.in_transaction =
                            \/ database.program = "upload_csvs_to_postgres"
                            \/ database.to_sql = "transaction"]
    /\ UNCHANGED undatabase_vars

\* pd.read_csv raises: outside the try of upload_csvs_to_postgres, inside the
\* try of bulk_upload_directory
ReadCsvRaises ==
    /\ database.pc = "loop"
    /\ database.file <= MaxFiles
    /\ database' =
        IF database.program = "upload_csvs_to_postgres"
        THEN [database EXCEPT !.pc = "raised",
                  !.outcomes = Append(@, "unreadable")]
        ELSE [database EXCEPT !.file = @ + 1,
                  !.outcomes = Append(@, "unreadable")]
    /\ UNCHANGED undatabase_vars

\* to_sql drops the table and creates it empty
ReplaceTable ==
    /\ database.pc = "to_sql"
    /\ LET replaced == [database.tables EXCEPT ![database.file] = EmptyTable]
       IN  database' = [database EXCEPT !.pc = "insert", !.tables = replaced,
                            !.committed = IF database.in_transaction
                                          THEN @ ELSE replaced]
    /\ UNCHANGED undatabase_vars

\* to_sql inserts the next chunk of rows
InsertChunk ==
    /\ database.pc = "insert"
    /\ database.chunk < MaxChunks
    /\ database' = [database EXCEPT !.chunk = @ + 1,
                        !.tables[database.file].rows =
                            Append(@, <<database.file, database.chunk + 1>>)]
    /\ UNCHANGED undatabase_vars

\* the content of the tables after the statements that are not committed
\* are undone
RolledBack(db) == db.committed

\* all chunks are in: the transaction is committed and the loop goes on
Commit ==
    /\ database.pc = "insert"
    /\ database.chunk = MaxChunks
    /\ database' = [database EXCEPT !.pc = "loop", !.file = @ + 1,
                        !.committed = database.tables,
                        !.in_transaction = FALSE,
                        !.outcomes = Append(@, "uploaded")]
    /\ UNCHANGED undatabase_vars

\* a statement of to_sql raises: the open transaction is rolled back and
\* the except clause prints the error
ToSqlRaises ==
    /\ database.pc \in {"to_sql", "insert"}
    /\ database' = [database EXCEPT !.pc = "except",
                        !.tables = RolledBack(database),
                        !.in_transaction = FALSE,
                        !.outcomes = Append(@, "failed")]
    /\ UNCHANGED undatabase_vars

\* continue: the next file of the directory
Continue ==
    /\ database.pc = "except"
    /\ database' = [database EXCEPT !.pc = "loop", !.file = @ + 1]
    /\ UNCHANGED undatabase_vars

\* the loop over the files is over
UploadReturns ==
    /\ database.pc = "loop"
    /\ database.file > MaxFiles
    /\ database' = [database EXCEPT !.pc = "done"]
    /\ UNCHANGED undatabase_vars

NextUpload ==
    \/ ReadCsv
    \/ ReadCsvRaises
    \/ ReplaceTable
    \/ InsertChunk
    \/ Commit
    \/ ToSqlRaises
    \/ Continue
    \/ UploadReturns

SpecUpload == InitUpload /\ [][NextUpload]_vars

\* C21: when to_sql fails part-way for a file, the tables are as they were
\* before the upload of that file; the loop goes on to the remaining files
\* (it ends early only for a file that cannot be read); the tables of the
\* files that were uploaded keep the rows of their files.
C21_AtomicPerFile ==
    /\ database.pc = "except" => database.tables = database.before
    /\ database.pc = "raised" =>
        database.outcomes[Len(database.outcomes)] = "unreadable"
    /\ database.pc = "done" =>
        /\ Len(database.outcomes) = MaxFiles
        /\ \A file \in 1..MaxFiles :
            database.outcomes[file] = "uploaded" =>
                database.tables[file] = FullTable(file)

\* the identifier columns of a projected row
identifier_columns == {"county_fips", "state", "county", "year", "name"}

\* the rows of a frame for a county
RowsOfCounty(df, county) ==
    LET OfCounty(row) == row["county_fips"] = county
    IN  SelectSeq(df, OfCounty)

\* the rows of a frame for the base year
BaseYearRows(df) ==
    LET InBaseYear(row) == row["year"] = BASE_YEAR
    IN  SelectSeq(df, InBaseYear)

\* the frame holds, for a county with the 2023 rows base, the block of the
\* untouched rows tagged 'original' followed by four blocks of scenario rows
\* with the identifiers of base
KeepsBaseline(rows, base) ==
    /\ Len(rows) = 5 * Len(base)
    /\ \A j \in 1..Len(base) :
        /\ rows[j] = WithCols(base[j], [scenario |-> "original"])
        /\ \A block \in 1..4 :
            LET row == rows[block * Len(base) + j]
            IN  /\ row["scenario"] = Scenarios[block]
                /\ \A c \in identifier_columns : row[c] = base[j][c]

\* C22: the step generate_county_projections leaves filtered_df and
\* pop_combined as they were; for every county with projection data the
\* 'original' rows of its result are its 2023 rows with only the scenario tag
\* added, and every scenario row has the county_fips, state, county, year and
\* name of its baseline row.
C22_BaselineKept ==
    [][pc = "population" =>
        /\ filtered_df' = filtered_df
        /\ pop_combined' = pop_combined
        /\ \A i \in 1..Len(filtered_df) :
            LET county == filtered_df[i]["county_fips"]
            IN  RowsOfCounty(pop_combined, county) # <<>> =>
                    KeepsBaseline(RowsOfCounty(all_counties_2065_combined', county),
                                  BaseYearRows(RowsOfCounty(filtered_df, county)))]_vars

\* a projected county whose s3 row has another population than its
\* 'original' row
C22_Witness ==
    /\ pc = "projected"
    /\ Len(all_counties_2065_combined) >= 5
    /\ \E i, j \in 1..Len(all_counties_2065_combined) :
        LET a == all_counties_2065_combined[i]
            b == all_counties_2065_combined[j]
        IN  /\ a["county_fips"] = b["county_fips"]
            /\ a["scenario"] = "original" /\ b["scenario"] = "s3"
            /\ IsFinite(a["population"]) /\ IsFinite(b["population"])
            /\ a["population"] # b["population"]

(***************************************************************************)
(* run_full_pipeline.main: validate_environment, then the steps through    *)
(* run_pipeline_step.  The step functions are the main functions of        *)
(* run_acquisition, run_cleaning and run_database_update, which catch the  *)
(* exceptions of their work and return 1.  pipeline holds                  *)
(*   step       the position of the for loop in steps                      *)
(*   started    the names of the steps started, in order                   *)
(*   work       per started step what happened to its work                 *)
(*   result     what the step function of the current step returned        *)
(*   proceed    what run_pipeline_step returned for the current step       *)
(*   returned   <<>> while main runs, then its return value                *)
(*   exit_status <<>> until sys.exit(main())                               *)
(***************************************************************************)
steps == <<"Data Acquisition", "Data Cleaning", "Database Update">>

\* the calls a step function makes inside its try block
WorkOf(step_name) ==
    IF step_name = "Data Acquisition" THEN <<"download_counties", "download_raw_data">>
    ELSE IF step_name = "Data Cleaning" THEN <<"convert_xlsx">>
    ELSE <<"update_database">>

InitFullPipeline ==
    /\ pipeline = [pc |-> "validate", step |-> 1, call |-> 0, started |-> <<>>,
                   work |-> <<>>, result |-> 0, proceed |-> TRUE,
                   completed_steps |-> 0, returned |-> <<>>, exit_status |-> <<>>]
    /\ downloader = NotConstructed
    /\ database = NotConnected
    /\ ForecastNotRun

\* everything but pipeline
unpipeline_vars ==
    <<database, downloader, csv_inputs, merged_df, pop_project, filtered_df, pop_combined,
      all_counties_2065_combined, df_scaled, results_df, csv_combined, csv_indices, pc>>

\* validate_environment returns True, or False after an exception
ValidateEnvironment ==
    /\ pipeline.pc = "validate"
    /\ \E valid \in BOOLEAN :
        pipeline' = IF valid THEN [pipeline EXCEPT !.pc = "loop"]
                    ELSE [pipeline EXCEPT !.pc = "returned", !.returned = <<1>>]
    /\ UNCHANGED unpipeline_vars

\* run_pipeline_step calls the step function of the next step
StartStep ==
    /\ pipeline.pc = "loop"
    /\ pipeline.step <= Len(steps)
    /\ pipeline' = [pipeline EXCEPT !.pc = "working", !.call = 1,
                        !.started = Append(@, steps[pipeline.step])]
    /\ UNCHANGED unpipeline_vars

\* a call of the step function returns: the next call, or return 0 after
\* the last one (a non-zero result of convert_xlsx is only a warning)
CallReturns ==
    /\ pipeline.pc = "working"
    /\ \E warnings \in BOOLEAN :
        LET calls == WorkOf(steps[pipeline.step])
            outcome == IF warnings /\ calls[pipeline.call] = "convert_xlsx"
                       THEN "completed with warnings" ELSE "completed"
        IN  pipeline' =
                IF pipeline.call < Len(calls)
                THEN [pipeline EXCEPT !.call = @ + 1]
                ELSE [pipeline EXCEPT !.pc = "step_returned", !.result = 0,
                          !.work = Append(@, outcome)]
    /\ UNCHANGED unpipeline_vars

\* a call of the step function raises: its except clause returns 1
CallRaises ==
    /\ pipeline.pc = "working"
    /\ pipeline' = [pipeline EXCEPT !.pc = "step_returned", !.result = 1,
            !.work = Append(@, WorkOf(steps[pipeline.step])[pipeline.call] \o " raised")]
    /\ UNCHANGED unpipeline_vars

\* run_pipeline_step returns: True for the result 0 and, as a warning, for
\* any other result
StepReturns ==
    /\ pipeline.pc = "step_returned"
    /\ pipeline' = [pipeline EXCEPT !.pc = "checked", !.proceed = TRUE]
    /\ UNCHANGED unpipeline_vars

\* the test of main on what run_pipeline_step returned
CheckStep ==
    /\ pipeline.pc = "checked"
    /\ pipeline' = IF pipeline.proceed
                   THEN [pipeline EXCEPT !.pc = "loop", !.step = @ + 1,
                             !.completed_steps = @ + 1]
                   ELSE [pipeline EXCEPT !.pc = "returned", !.returned = <<1>>]
    /\ UNCHANGED unpipeline_vars

\* the loop is over: main returns 0
FullPipelineCompleted ==
    /\ pipeline.pc = "loop"
    /\ pipeline.step > Len(steps)
    /\ pipeline' = [pipeline EXCEPT !.pc = "returned", !.returned = <<0>>]
    /\ UNCHANGED unpipeline_vars

\* sys.exit(main())
SysExit ==
    /\ pipeline.pc = "returned"
    /\ pipeline' = [pipeline EXCEPT !.pc = "exited", !.exit_status = pipeline.returned]
    /\ UNCHANGED unpipeline_vars

NextFullPipeline ==
    \/ ValidateEnvironment
    \/ StartStep
    \/ CallReturns
    \/ CallRaises
    \/ StepReturns
    \/ CheckStep
    \/ FullPipelineCompleted
    \/ SysExit

SpecFullPipeline == InitFullPipeline /\ [][NextFullPipeline]_vars

\* the steps whose work raised an exception
FailedSteps ==
    {i \in 1..Len(pipeline.work) :
        pipeline.work[i] \notin {"completed", "completed with warnings"}}

\* C23: the steps run in the order Data Acquisition, Data Cleaning, Database
\* Update; after the work of a step failed with an exception no later step
\* is run and main returns 1; main returns 0 only if the work of every step
\* completed without failure.
C23_StopsAtFailedStep ==
    /\ pipeline.started = SubSeq(steps, 1, Len(pipeline.started))
    /\ \A i \in FailedSteps : Len(pipeline.started) = i
    /\ pipeline.returned # <<>> =>
        /\ FailedSteps # {} => pipeline.returned = <<1>>
        /\ pipeline.returned = <<0>> =>
            /\ FailedSteps = {}
            /\ pipeline.started = steps

\* C24: when a run of main has ended, completed or aborted by an exception,
\* combined_2065_data.csv and projected_socioeconomic_indices.csv come from
\* the same run: both were written by this run or neither was.
C24_OutputsFromSameRun ==
    pc \in {"done", "aborted"} => csv_combined.run = csv_indices.run

(***************************************************************************)
(* The raw data files of one dataset over repeated runs of the downloader: *)
(* a Census dataset (_download_dataset with one                            *)
(* _download_single_dataset_year per year) or the county-level Data        *)
(* Commons dataset (_download_datacommons_dataset with one                 *)
(* _fetch_datacommons_for_geo per county).  downloader holds               *)
(*   source          "census" or "datacommons"                             *)
(*   files           per year the output file of the dataset               *)
(*   series          per county what dc.get_stat_series returns            *)
(*   existing_files  the years found on disk when the dataset started      *)
(*   all_data        per missing year the entries collected so far         *)
(*   tasks           the state of the tasks of the pool                    *)
(*   progress        per fetch task the observations it has gone through   *)
(*   run             the number of the run                                 *)
(***************************************************************************)
MaxDcYears == 2
MaxGeos == 2
MaxRuns == 2

\* "YEARS": (2021, 2023) of FEMA_NRI, cut to MaxDcYears years
FirstYear == 2021

years_range == FirstYear..(FirstYear + MaxDcYears - 1)

\* the year of the i-th per-year task
YearOfTask(i) == FirstYear + i - 1

DigitChars == <<"0", "1", "2", "3", "4", "5", "6", "7", "8", "9">>

\* int(text) for a text of digits
RECURSIVE ParseInt(_)
ParseInt(text) ==
    IF text = "" THEN 0
    ELSE LET last == SubSeq(text, Len(text), Len(text))
             value == CHOOSE d \in 0..9 : DigitChars[d + 1] = last
         IN  10 * ParseInt(SubSeq(text, 1, Len(text) - 1)) + value

\* if len(year) != 4: year = year[:4]; year_int = int(year)
YearInt(year) == ParseInt(IF Len(year) # 4 THEN SubSeq(year, 1, 4) ELSE year)

\* an observation of a county as get_stat_series returns it
Observation(geo, k, date) == [date |-> date, value |-> 100 * geo + k]

\* what get_stat_series can return for a county: nothing, yearly values,
\* a year before the range and a monthly value
SeriesOf(geo) ==
    { <<>>,
      <<Observation(geo, 1, "2021"), Observation(geo, 2, "2022")>>,
      <<Observation(geo, 1, "2020"), Observation(geo, 2, "2021-06")>> }

\* no file, and a file written by an earlier run of the downloader
NoFile == [exists |-> FALSE, rows |-> <<>>]

OldFile == [exists |-> TRUE, rows |-> <<[STATE |-> 0, COUNTY |-> 0, value |-> 0]>>]

\* output_file.exists() answered as for a missing file
FileExistsNever(file) == FALSE

\* output_file.exists(), and the files found by output_dir.glob
FileExists(file) == file.exists

\* the file a Census download writes for a year
CensusFile(year) == [exists |-> TRUE, rows |-> <<[STATE |-> 1, COUNTY |-> 1, value |-> year]>>]

\* entry = {"STATE": state, variable: value, "COUNTY": county}
Entry(geo, observation) == [STATE |-> 1, COUNTY |-> geo, value |-> observation.value]

InitRawData ==
    /\ \E source \in {"census", "datacommons"}, cpu_count \in CpuCounts,
          files \in [years_range -> {NoFile, OldFile}],
          series \in [1..MaxGeos -> UNION {SeriesOf(g) : g \in 1..MaxGeos}] :
        /\ \A g \in 1..MaxGeos : series[g] \in SeriesOf(g)
        /\ source = "census" => \A g \in 1..MaxGeos : series[g] = <<>>
        /\ downloader = [pc |-> "start", source |-> source, cpu_count |-> cpu_count,
                         files |-> files, series |-> series, existing_files |-> {},
                         all_data |-> <<>>, tasks |-> <<>>,
                         progress |-> [g \in 1..MaxGeos |-> 0], run |-> 1]
    /\ pipeline = NotRun
    /\ database = NotConnected
    /\ ForecastNotRun

\* _download_dataset of a Census dataset submits one task per year
StartCensus ==
    /\ downloader.pc = "start"
    /\ downloader.source = "census"
    /\ downloader' = [downloader EXCEPT !.pc = "running",
                          !.tasks = [i \in 1..MaxDcYears |-> "pending"]]
    /\ UNCHANGED other_vars

\* _download_single_dataset_year starts: it returns at once when its file exists
StartYearTask ==
    /\ downloader.pc = "running"
    /\ downloader.source = "census"
    /\ \E i \in NextTask(downloader.tasks, max_workers(downloader.cpu_count)) :
        downloader' = [downloader EXCEPT !.tasks[i] =
            IF FileExists(downloader.files[YearOfTask(i)]) THEN "skipped" ELSE "running"]
    /\ UNCHANGED other_vars

\* ced.download returned and df.to_csv wrote the file of the year
YearSaved ==
    /\ downloader.source = "census"
    /\ \E i \in Running(downloader.tasks) :
        downloader' = [downloader EXCEPT !.tasks[i] = "saved",
                           !.files[YearOfTask(i)] = CensusFile(YearOfTask(i))]
    /\ UNCHANGED other_vars

\* ced.download raised: nothing is written
YearFails ==
    /\ downloader.source = "census"
    /\ \E i \in Running(downloader.tasks) :
        downloader' = [downloader EXCEPT !.tasks[i] = "failed"]
    /\ UNCHANGED other_vars

\* wait(futures) is over for the Census dataset
CensusReturns ==
    /\ downloader.pc = "running"
    /\ downloader.source = "census"
    /\ \A i \in 1..Len(downloader.tasks) : downloader.tasks[i] \in Returned
    /\ downloader' = [downloader EXCEPT !.pc = "done"]
    /\ UNCHANGED other_vars

\* _download_datacommons_dataset up to the submission of the fetch tasks:
\* it returns when every year has a file
StartDataCommons ==
    /\ downloader.pc = "start"
    /\ downloader.source = "datacommons"
    /\ LET existing_files == {y \in years_range : FileExists(downloader.files[y])}
       IN  downloader' =
            IF \A y \in years_range : y \in existing_files
            THEN [downloader EXCEPT !.pc = "done", !.existing_files = existing_files]
            ELSE [downloader EXCEPT !.pc = "running",
                      !.existing_files = existing_files,
                      !.all_data = [y \in years_range \ existing_files |-> <<>>],
                      !.tasks = [g \in 1..MaxGeos |-> "pending"],
                      !.progress = [g \in 1..MaxGeos |-> 0]]
    /\ UNCHANGED other_vars

\* a worker starts _fetch_datacommons_for_geo and calls dc.get_stat_series
StartFetch ==
    /\ downloader.pc = "running"
    /\ downloader.source = "datacommons"
    /\ \E g \in NextTask(downloader.tasks, max_county_workers(downloader.cpu_count)) :
        downloader' = [downloader EXCEPT !.tasks[g] = "running"]
    /\ UNCHANGED other_vars

\* dc.get_stat_series returned the series of the county
SeriesReturned ==
    /\ downloader.source = "datacommons"
    /\ \E g \in Running(downloader.tasks) :
        downloader' = [downloader EXCEPT !.tasks[g] = "processing"]
    /\ UNCHANGED other_vars

\* dc.get_stat_series raised: the except clause of the task
SeriesRaises ==
    /\ downloader.source = "datacommons"
    /\ \E g \in Running(downloader.tasks) :
        downloader' = [downloader EXCEPT !.tasks[g] = "failed"]
    /\ UNCHANGED other_vars

\* the list of a year after an entry was appended by the one-worker executor
\* with the list replaced
AppendedAlone(entries, entry) == <<entry>>

\* all_data[year_int].append(entry)
Appended(entries, entry) == Append(entries, entry)

\* one turn of the loop over data.items(): the entry is appended when the
\* year is in the range and has no file
NextObservation ==
    /\ downloader.source = "datacommons"
    /\ \E g \in 1..Len(downloader.tasks) :
        /\ downloader.tasks[g] = "processing"
        /\ downloader.progress[g] < Len(downloader.series[g])
        /\ LET observation == downloader.series[g][downloader.progress[g] + 1]
               year_int == YearInt(observation.date)
           IN  downloader' =
                IF year_int \in years_range /\ year_int \notin downloader.existing_files
                THEN [downloader EXCEPT !.progress[g] = @ + 1,
                          !.all_data[year_int] = Appended(@, Entry(g, observation))]
                ELSE [downloader EXCEPT !.progress[g] = @ + 1]
    /\ UNCHANGED other_vars

\* the loop over data.items() is over: the task returns
FetchReturns ==
    /\ downloader.source = "datacommons"
    /\ \E g \in 1..Len(downloader.tasks) :
        /\ downloader.tasks[g] = "processing"
        /\ downloader.progress[g] = Len(downloader.series[g])
        /\ downloader' = [downloader EXCEPT !.tasks[g] = "fetched"]
    /\ UNCHANGED other_vars

\* the as_completed loop is over and the pool is shut down: one CSV is
\* written per year that has entries
SaveYears ==
    /\ downloader.pc = "running"
    /\ downloader.source = "datacommons"
    /\ \A g \in 1..Len(downloader.tasks) : downloader.tasks[g] \in Returned
    /\ downloader' = [downloader EXCEPT !.pc = "done",
            !.files = [y \in years_range |->
                IF y \in DOMAIN downloader.all_data /\ downloader.all_data[y] # <<>>
                THEN [exists |-> TRUE, rows |-> downloader.all_data[y]]
                ELSE downloader.files[y]]]
    /\ UNCHANGED other_vars

\* the downloader is run again on the files the run before left
RunAgain ==
    /\ downloader.pc = "done"
    /\ downloader.run < MaxRuns
    /\ downloader' = [downloader EXCEPT !.pc = "start", !.run = @ + 1,
                          !.tasks = <<>>, !.all_data = <<>>, !.existing_files = {},
                          !.progress = [g \in 1..MaxGeos |-> 0]]
    /\ UNCHANGED other_vars

NextRawData ==
    \/ StartCensus
    \/ StartYearTask
    \/ YearSaved
    \/ YearFails
    \/ CensusReturns
    \/ StartDataCommons
    \/ StartFetch
    \/ SeriesReturned
    \/ SeriesRaises
    \/ NextObservation
    \/ FetchReturns
    \/ SaveYears
    \/ RunAgain

SpecRawData == InitRawData /\ [][NextRawData]_vars

\* the number of times an entry is in a list
Count(entries, entry) == Cardinality({i \in 1..Len(entries) : entries[i] = entry})

\* the observations of the series of a county a fetch task has gone through
\* that belong to a year
ObservationsDone(dl, g, year) ==
    {k \in 1..Len(dl.series[g]) :
        /\ dl.tasks[g] \in {"processing", "fetched"}
        /\ k <= dl.progress[g]
        /\ YearInt(dl.series[g][k].date) = year}

\* all_data holds, for the missing years of the range, each observation the
\* fetch tasks have gone through once, as the entry of its own county
EntriesExact(dl) ==
    /\ DOMAIN dl.all_data = IF dl.all_data = <<>> THEN {} ELSE years_range \ dl.existing_files
    /\ \A year \in DOMAIN dl.all_data :
        /\ \A g \in 1..MaxGeos : \A k \in 1..Len(dl.series[g]) :
            Count(dl.all_data[year], Entry(g, dl.series[g][k])) =
                IF k \in ObservationsDone(dl, g, year) THEN 1 ELSE 0
        /\ Len(dl.all_data[year]) =
            Cardinality(UNION {{<<g, k>> : k \in ObservationsDone(dl, g, year)} : g \in 1..MaxGeos})

\* C25: for a Data Commons dataset, under every interleaving of the fetch
\* tasks, every observation of a year in range without a file is appended to
\* all_data[year] exactly once as the entry of its own county and value, none
\* is lost or duplicated, and the CSV of a year is written only after all fetch
\* tasks have finished and holds exactly these entries
C25_EntriesExactlyOnce ==
    [][downloader.source = "datacommons" =>
        /\ EntriesExact(downloader')
        /\ downloader'.files # downloader.files =>
            /\ \A g \in 1..MaxGeos :
                /\ downloader.tasks[g] \in {"fetched", "failed"}
                /\ downloader.tasks[g] = "fetched" => downloader.progress[g] = Len(downloader.series[g])
            /\ \A year \in years_range :
                downloader'.files[year] # downloader.files[year] =>
                    /\ year \in DOMAIN downloader.all_data
                    /\ downloader'.files[year].rows = downloader.all_data[year]]_vars

\* two counties fetched concurrently have put their entries into the same
\* year, the second county first, and the file of the year is written
C25_Witness ==
    /\ downloader.pc = "done"
    /\ "source" \in DOMAIN downloader
    /\ downloader.source = "datacommons"
    /\ \E year \in years_range :
        /\ Len(downloader.files[year].rows) = 2
        /\ downloader.files[year].rows[1].COUNTY = 2
        /\ downloader.files[year].rows[2].COUNTY = 1

\* C26: a file of a (dataset, year) that exists is left unchanged by every
\* step of every run: a Census task of such a year never downloads, a Data
\* Commons dataset collects no entries for such a year, and a run started
\* when every file exists changes no file
C26_ExistingFilesKept ==
    [][/\ \A year \in years_range :
            downloader.files[year].exists => downloader'.files[year] = downloader.files[year]
       /\ downloader'.source = "census" =>
            \A i \in 1..Len(downloader'.tasks) :
                downloader'.tasks[i] = "running" => ~downloader'.files[YearOfTask(i)].exists
       /\ downloader'.source = "datacommons" /\ downloader'.pc = "running" =>
            \A year \in DOMAIN downloader'.all_data : ~downloader'.files[year].exists]_vars

\* a second run is over: the file of the first year is still the one that
\* was there before the first run, the file of the second year is the one the
\* first run wrote
C26_Witness ==
    /\ downloader.pc = "done"
    /\ "run" \in DOMAIN downloader
    /\ downloader.run = 2
    /\ downloader.files[FirstYear] = OldFile
    /\ downloader.files[FirstYear + 1].exists
    /\ downloader.files[FirstYear + 1] # OldFile

(***************************************************************************)
(* One DatabaseConnection under a sequence of connect() and close() calls. *)
(* database holds the fields of the object and the resources behind them:  *)
(*   conn, engine    the attributes (None or the number of the resource)   *)
(*   engines         the number of engines create_engine has made          *)
(*   connections     the number of connections engine.connect has made     *)
(*   open            the connections that are not closed                   *)
(*   undisposed      the engines that are not disposed                     *)
(*   call, result    the last call and what it returned                    *)
(*   raised          whether the last call raised                          *)
(*   calls           the number of calls made                              *)
(***************************************************************************)
MaxCalls == 5

None == 0

ConnectOutcomes == {"connected", "create_engine raises", "engine.connect raises"}

\* self.conn is not None, answered as for a fresh object
ConnectedNever(db) == FALSE

\* if self.conn is not None
Connected(db) == db.conn # None

\* DatabaseConnection.connect: the object after the call, with the result
connect(db, outcome) ==
    IF Connected(db) THEN [db EXCEPT !.result = db.conn, !.raised = FALSE]
    ELSE IF outcome = "create_engine raises" THEN [db EXCEPT !.result = None, !.raised = TRUE]
    ELSE LET engine == db.engines + 1
             created == [db EXCEPT !.engine = engine, !.engines = engine,
                                   !.undisposed = @ \cup {engine}]
         IN  IF outcome = "engine.connect raises" THEN [created EXCEPT !.result = None, !.raised = TRUE]
             ELSE LET conn == db.connections + 1
                  IN  [created EXCEPT !.conn = conn, !.connections = conn,
                                      !.open = @ \cup {conn}, !.result = conn, !.raised = FALSE]

\* DatabaseConnection.close with the connection left as it is
closeEngineOnly(db) ==
    [db EXCEPT !.undisposed = @ \ {db.engine}, !.engine = None,
               !.result = None, !.raised = FALSE]

\* DatabaseConnection.close
close(db) ==
    [db EXCEPT !.open = @ \ {db.conn}, !.conn = None,
               !.undisposed = @ \ {db.engine}, !.engine = None,
               !.result = None, !.raised = FALSE]

\* DatabaseConnection.__init__
NewConnection ==
    [conn |-> None, engine |-> None, engines |-> 0, connections |-> 0,
     open |-> {}, undisposed |-> {}, result |-> None, raised |-> FALSE]

InitConnection ==
    /\ database = [f \in DOMAIN NewConnection \cup {"pc", "call", "calls"} |->
                    IF f = "pc" THEN "constructed"
                    ELSE IF f = "call" THEN "__init__"
                    ELSE IF f = "calls" THEN 0
                    ELSE NewConnection[f]]
    /\ pipeline = NotRun
    /\ downloader = NotConstructed
    /\ ForecastNotRun

\* a call of connect(), with any of its outcomes
Connect ==
    /\ database.pc = "constructed"
    /\ database.calls < MaxCalls
    /\ \E outcome \in ConnectOutcomes :
        database' = [connect(database, outcome) EXCEPT !.call = "connect", !.calls = @ + 1]
    /\ UNCHANGED undatabase_vars

\* a call of close()
Close ==
    /\ database.pc = "constructed"
    /\ database.calls < MaxCalls
    /\ database' = [close(database) EXCEPT !.call = "close", !.calls = @ + 1]
    /\ UNCHANGED undatabase_vars

NextConnection ==
    \/ Connect
    \/ Close

SpecConnection == InitConnection /\ [][NextConnection]_vars

\* C27: at most one connection is open at a time; connect() on a connected
\* object returns the connection it has and creates no engine and no
\* connection; connect() on an object that is not connected (never connected,
\* or closed) returns, when it succeeds, a connection that did not exist before
C27_OneConnection ==
    [][/\ Cardinality(database'.open) <= 1
       /\ database'.conn # None => database'.open = {database'.conn}
       /\ database'.call = "connect" /\ database.conn # None =>
            /\ ~database'.raised
            /\ database'.result = database.conn
            /\ database'.conn = database.conn
            /\ database'.engine = database.engine
            /\ database'.engines = database.engines
            /\ database'.connections = database.connections
       /\ database'.call = "connect" /\ database.conn = None /\ ~database'.raised =>
            /\ database'.result > database.connections
            /\ database'.conn = database'.result
            /\ database'.open = {database'.result}
            /\ database'.engine > database.engines]_vars

\* connect() has returned the second connection of the object after a
\* close(), and connect() was then called once more on the connected object
C27_Witness ==
    /\ database.pc = "constructed"
    /\ database.call = "connect"
    /\ database.calls = 4
    /\ database.conn = 2
    /\ database.connections = 2
    /\ database.open = {2}
    /\ database.engines = 2

\* C28: every engine that is not disposed is the one the object holds, so
\* that none is replaced or forgotten undisposed; a connect() that raised
\* leaves conn and engine both None; close() leaves both None, whatever the
\* state it is called in; conn is not None only while engine is not None
C28_EnginesDisposed ==
    /\ database.undisposed \subseteq {database.engine}
    /\ database.call = "connect" /\ database.raised =>
        database.conn = None /\ database.engine = None
    /\ database.call = "close" =>
        database.conn = None /\ database.engine = None /\ database.open = {}
    /\ database.conn # None => database.engine # None

(***************************************************************************)
(* main of the pipeline's update_database: the uploads of the two          *)
(* directories inside "with PipelineDatabase() as db".  database holds the *)
(* fields of the DatabaseConnection of the client and                      *)
(*   exists     per directory whether it exists                            *)
(*   files      per directory the number of CSV files in it                *)
(*   directory  the directory main is at                                   *)
(*   file       the file bulk_upload_directory is at                       *)
(*   uploads    the uploads made, each with the connection it used         *)
(*   exc        whether an exception left the with block                   *)
(***************************************************************************)
directories == <<"cleaned_data", "projected_data">>

InitUpdateDatabase ==
    /\ \E exists \in [1..Len(directories) -> BOOLEAN],
          files \in [1..Len(directories) -> 0..MaxFiles] :
        /\ \A d \in 1..Len(directories) : ~exists[d] => files[d] = 0
        /\ database = [f \in DOMAIN NewConnection \cup
                            {"pc", "exists", "files", "directory", "file", "uploads", "exc"} |->
                        IF f = "pc" THEN "enter"
                        ELSE IF f = "exists" THEN exists
                        ELSE IF f = "files" THEN files
                        ELSE IF f = "directory" THEN 0
                        ELSE IF f = "file" THEN 0
                        ELSE IF f = "uploads" THEN <<>>
                        ELSE IF f = "exc" THEN FALSE
                        ELSE NewConnection[f]]
    /\ pipeline = NotRun
    /\ downloader = NotConstructed
    /\ ForecastNotRun

\* PipelineDatabase.__enter__: connect(); when it raises, main raises and
\* __exit__ is not called
EnterDatabase ==
    /\ database.pc = "enter"
    /\ \E outcome \in ConnectOutcomes :
        LET db == connect(database, outcome)
        IN  database' = IF db.raised THEN [db EXCEPT !.pc = "raised"]
                        ELSE [db EXCEPT !.pc = "directory", !.directory = 1]
    /\ UNCHANGED undatabase_vars

\* main goes to the next directory, or leaves the with block after the last
AfterDirectory(db) ==
    IF db.directory < Len(directories)
    THEN [db EXCEPT !.pc = "directory", !.directory = @ + 1, !.file = 0]
    ELSE [db EXCEPT !.pc = "exit", !.file = 0]

\* if path.exists(): db.bulk_upload_directory(path) else: a warning
CheckDirectory ==
    /\ database.pc = "directory"
    /\ database' = IF database.exists[database.directory]
                   THEN [database EXCEPT !.pc = "upload", !.file = 1]
                   ELSE AfterDirectory(database)
    /\ UNCHANGED undatabase_vars

\* bulk_upload_csv of the next file of the directory: connect(), then to_sql
\* returns or raises; bulk_upload_directory goes on in both cases
UploadFile ==
    /\ database.pc = "upload"
    /\ database.file <= database.files[database.directory]
    /\ \E uploaded \in BOOLEAN :
        LET db == connect(database, "connected")
        IN  database' = [db EXCEPT !.file = @ + 1,
                !.uploads = Append(@, [directory |-> db.directory, file |-> db.file,
                                       conn |-> db.result, open |-> db.result \in db.open,
                                       uploaded |-> uploaded])]
    /\ UNCHANGED undatabase_vars

\* bulk_upload_directory returns after the last file
DirectoryUploaded ==
    /\ database.pc = "upload"
    /\ database.file > database.files[database.directory]
    /\ database' = AfterDirectory(database)
    /\ UNCHANGED undatabase_vars

\* an exception leaves the with block: FileNotFoundError of
\* bulk_upload_directory for a directory that is gone, or an exception that
\* "except Exception" does not catch
WithBlockRaises ==
    /\ database.pc \in {"directory", "upload"}
    /\ database' = [database EXCEPT !.pc = "exit", !.exc = TRUE]
    /\ UNCHANGED undatabase_vars

\* PipelineDatabase.__exit__: close(); main returns, or raises what left the
\* with block
ExitDatabase ==
    /\ database.pc = "exit"
    /\ database' = [close(database) EXCEPT !.pc = IF database.exc THEN "raised" ELSE "returned"]
    /\ UNCHANGED undatabase_vars

NextUpdateDatabase ==
    \/ EnterDatabase
    \/ CheckDirectory
    \/ UploadFile
    \/ DirectoryUploaded
    \/ WithBlockRaises
    \/ ExitDatabase

SpecUpdateDatabase == InitUpdateDatabase /\ [][NextUpdateDatabase]_vars

\* the files of the directories that exist
FilesToUpload(db) ==
    {df \in (1..Len(directories)) \X (1..MaxFiles) : df[2] <= db.files[df[1]]}

C30_ScaledPopulationIsProjected ==
    pc = "projected" =>
        \A i \in 1..Len(filtered_df) :
            LET county == filtered_df[i]["county_fips"]
                base == BaseYearRows(RowsOfCounty(filtered_df, county))
                county_proj == RowsOfCounty(pop_combined, county)
                rows == RowsOfCounty(all_counties_2065_combined, county)
            IN  county_proj # <<>> =>
                    \A j \in 1..Len(base) :
                        /\ IsFinite(base[j]["population"])
                        /\ base[j]["population"] = county_proj[1]["population_2023"]
                        /\ base[j]["population"] # Num(0)
                        => \A block \in 1..Len(Scenarios) :
                            rows[block * Len(base) + j]["population"] =
                                FRound(county_proj[1][PopCol(Scenarios[block])], 1)

\* a projected county whose 2023 population is the population_2023 of its
\* projection row, with a projected population of s3 that is not a whole
\* number
C30_Witness ==
    /\ pc = "projected"
    /\ \E i \in 1..Len(filtered_df) :
        LET county == filtered_df[i]["county_fips"]
            county_proj == RowsOfCounty(pop_combined, county)
        IN  /\ filtered_df[i]["year"] = BASE_YEAR
            /\ county_proj # <<>>
            /\ filtered_df[i]["population"] = county_proj[1]["population_2023"]
            /\ filtered_df[i]["population"] # Num(0)
            /\ county_proj[1]["population_2065_s3"] # FRound(county_proj[1]["population_2065_s3"], 1)
            /\ \E k \in 1..Len(all_counties_2065_combined) :
                /\ all_counties_2065_combined[k]["county_fips"] = county
                /\ all_counties_2065_combined[k]["scenario"] = "s3"
                /\ all_counties_2065_combined[k]["population"] = Num(12)

====
